---- MODULE Spec2Model ----
(***************************************************************************)
(* Plan generation of the gym planner (src/js/plan.js, src/js/exercises.js) *)
(* as a state machine: the exercise catalog EXERCISES, the active plan      *)
(* state.plan, and the click handler of the "Generate" button, which        *)
(* replaces the active plan by generatePlan(goal, daysPerWeek, equipment).  *)
(* The handler is one step where its result is what matters, and three      *)
(* steps (the form is read, generatePlan is called, its result is assigned) *)
(* where the call itself is looked at.  Further specifications cover the    *)
(* plan editor, the catalog loader (loadExercises) and the stored workouts  *)
(* (src/js/storage.js).                                                     *)
(*                                                                          *)
(* Strings of the program are TLA+ strings, except exercise names, which    *)
(* are sequences of one-character strings so that String.localeCompare can  *)
(* be computed on them.  Arrays are sequences (1-based here, 0-based in the *)
(* program), `undefined' results of find / indexing are the empty sequence  *)
(* and a found element e is <<e>>.                                          *)
(***************************************************************************)
EXTENDS Integers, Sequences, FiniteSets, TLC

VARIABLES
    EXERCISES,   \* exercises.js: the loaded catalog (array of exercise records)
    plan,        \* plan.js: state.plan, the active plan
    generated,   \* "no", "once", "again", "switched": the clicks on Generate so far
    trace,       \* intermediate values of the last generatePlan call
    frame,       \* the locals of the handler that is running, its position in pc
    stored,      \* storage.js: the plan Storage.getPlan() returns
    arrays,      \* the equipment arrays of the heap, by address (1, 2, ...)
    selectedEquip,  \* plan.js: address of the array state.selectedEquip
    metaEquipment,  \* address of the array state.plan.meta.equipment
    LOADED,      \* exercises.js: the catalog was loaded
    cache,       \* storage.js: what Storage.getExercisesCache() returns
    loads,       \* the calls of loadExercises so far, each with its position
    fetches,     \* number of fetches of exercises.json so far
    workouts     \* storage.js: the array Storage.getWorkouts() returns

\* The loader's state, and what the generator's one-step handler and the
\* editor never touch.
loader == <<LOADED, cache, loads, fetches>>
elsewhere == <<arrays, selectedEquip, metaEquipment, loader, workouts>>

vars == <<EXERCISES, plan, generated, trace, frame, stored, elsewhere>>

----------------------------------------------------------------------------
(* Bounds of the model *)

MaxCatalog == 3     \* longest catalog
MaxWideCatalog == 4 \* longest catalog of the wide specifications
MaxDayExercises == 3 \* the editor adds to a day with fewer exercises than this
MaxLoads == 3       \* most calls of loadExercises
MaxWorkouts == 3    \* upsertWorkout appends to fewer stored workouts than this
MaxDays == 7        \* largest daysPerWeek entered
NegDays == 4        \* daysPerWeek goes down to -NegDays

Min(a, b) == IF a <= b THEN a ELSE b
Max(a, b) == IF a >= b THEN a ELSE b

----------------------------------------------------------------------------
(* Exercise names and their comparison *)

\* The characters used in names of the model's catalogs.
Chars ==
    {" ", "-", "B", "C", "D", "H", "I", "K", "L", "O", "P", "R", "S", "T",
     "a", "b", "c", "d", "e", "f", "g", "h", "i", "k", "l", "m", "n", "o",
     "p", "q", "r", "s", "t", "u", "v", "w"}

\* UTF-16 code unit of a character (what < on JS strings compares).
CodeUnit(c) ==
    CASE c = " " -> 32 [] c = "-" -> 45 [] c = "B" -> 66 [] c = "C" -> 67
      [] c = "D" -> 68 [] c = "H" -> 72 [] c = "I" -> 73 [] c = "K" -> 75
      [] c = "L" -> 76 [] c = "O" -> 79 [] c = "P" -> 80 [] c = "R" -> 82
      [] c = "S" -> 83 [] c = "T" -> 84 [] c = "a" -> 97 [] c = "b" -> 98
      [] c = "c" -> 99 [] c = "d" -> 100 [] c = "e" -> 101 [] c = "f" -> 102
      [] c = "g" -> 103 [] c = "h" -> 104 [] c = "i" -> 105
      [] c = "k" -> 107 [] c = "l" -> 108 [] c = "m" -> 109
      [] c = "n" -> 110 [] c = "o" -> 111 [] c = "p" -> 112
      [] c = "q" -> 113 [] c = "r" -> 114 [] c = "s" -> 115
      [] c = "t" -> 116 [] c = "u" -> 117 [] c = "v" -> 118
      [] c = "w" -> 119

\* Collation weights of the default (root) collation behind localeCompare:
\* the primary weight is the letter regardless of case, the space and the
\* hyphen coming before every letter; the tertiary weight puts the
\* lower-case form before the upper-case form.
PrimaryWeight(c) ==
    CASE c = " " -> 1 [] c = "-" -> 2 [] c = "B" -> 4 [] c = "C" -> 5
      [] c = "D" -> 6 [] c = "H" -> 10 [] c = "I" -> 11 [] c = "K" -> 13
      [] c = "L" -> 14 [] c = "O" -> 17 [] c = "P" -> 18 [] c = "R" -> 20
      [] c = "S" -> 21 [] c = "T" -> 22 [] c = "a" -> 3 [] c = "b" -> 4
      [] c = "c" -> 5 [] c = "d" -> 6 [] c = "e" -> 7 [] c = "f" -> 8
      [] c = "g" -> 9 [] c = "h" -> 10 [] c = "i" -> 11 [] c = "k" -> 13
      [] c = "l" -> 14 [] c = "m" -> 15 [] c = "n" -> 16 [] c = "o" -> 17
      [] c = "p" -> 18 [] c = "q" -> 19 [] c = "r" -> 20 [] c = "s" -> 21
      [] c = "t" -> 22 [] c = "u" -> 23 [] c = "v" -> 24 [] c = "w" -> 25
TertiaryWeight(c) ==
    CASE c = " " -> 0 [] c = "-" -> 0 [] c = "B" -> 1 [] c = "C" -> 1
      [] c = "D" -> 1 [] c = "H" -> 1 [] c = "I" -> 1 [] c = "K" -> 1
      [] c = "L" -> 1 [] c = "O" -> 1 [] c = "P" -> 1 [] c = "R" -> 1
      [] c = "S" -> 1 [] c = "T" -> 1 [] c = "a" -> 0 [] c = "b" -> 0
      [] c = "c" -> 0 [] c = "d" -> 0 [] c = "e" -> 0 [] c = "f" -> 0
      [] c = "g" -> 0 [] c = "h" -> 0 [] c = "i" -> 0 [] c = "k" -> 0
      [] c = "l" -> 0 [] c = "m" -> 0 [] c = "n" -> 0 [] c = "o" -> 0
      [] c = "p" -> 0 [] c = "q" -> 0 [] c = "r" -> 0 [] c = "s" -> 0
      [] c = "t" -> 0 [] c = "u" -> 0 [] c = "v" -> 0 [] c = "w" -> 0

RECURSIVE CompareFrom(_, _, _, _)
\* -1, 0, 1: lexicographic comparison of a and b from index i on, by the
\* weights w[c] of their characters; a proper prefix comes first.
CompareFrom(a, b, w, i) ==
    IF i > Len(a) /\ i > Len(b) THEN 0
    ELSE IF i > Len(a) THEN -1
    ELSE IF i > Len(b) THEN 1
    ELSE IF w[a[i]] < w[b[i]] THEN -1
    ELSE IF w[a[i]] > w[b[i]] THEN 1
    ELSE CompareFrom(a, b, w, i + 1)

\* a.localeCompare(b): primary weights decide first, case breaks ties.
localeCompare(a, b) ==
    LET p == CompareFrom(a, b, [c \in Chars |-> PrimaryWeight(c)], 1)
    IN  IF p # 0 THEN p
        ELSE CompareFrom(a, b, [c \in Chars |-> TertiaryWeight(c)], 1)

\* Comparison by code units: case-sensitive lexicographic order.
codeUnitCompare(a, b) == CompareFrom(a, b, [c \in Chars |-> CodeUnit(c)], 1)

----------------------------------------------------------------------------
(* Arrays *)

\* The array with the n elements f[1], ..., f[n], each computed once.
toArray(f, n) == SubSeq(f, 1, n)

\* Elements of an array as a set (new Set(array)).
SetOf(arr) == {arr[i] : i \in 1..Len(arr)}

\* Array.prototype.slice(0, end)
slice0(arr, end) ==
    LET len == Len(arr)
        k == IF end < 0 THEN Max(len + end, 0) ELSE Min(end, len)
    IN  SubSeq(arr, 1, k)

----------------------------------------------------------------------------
(* exercises.js *)

\* The built-in catalog, names as character sequences.
FALLBACK ==
    << [id |-> "bb_squat", primaryMuscle |-> "Quads", equipment |-> "Barbell",
        pattern |-> "Squat",
        name |-> <<"B", "a", "r", "b", "e", "l", "l", " ", "B", "a", "c", "k", " ", "S",
                  "q", "u", "a", "t">>],
       [id |-> "bb_deadlift", primaryMuscle |-> "Hamstrings", equipment |-> "Barbell",
        pattern |-> "Hinge",
        name |-> <<"B", "a", "r", "b", "e", "l", "l", " ", "D", "e", "a", "d", "l", "i",
                  "f", "t">>],
       [id |-> "bb_bench", primaryMuscle |-> "Chest", equipment |-> "Barbell",
        pattern |-> "Horizontal Push",
        name |-> <<"B", "a", "r", "b", "e", "l", "l", " ", "B", "e", "n", "c", "h", " ",
                  "P", "r", "e", "s", "s">>],
       [id |-> "bb_ohp", primaryMuscle |-> "Shoulders", equipment |-> "Barbell",
        pattern |-> "Vertical Push",
        name |-> <<"B", "a", "r", "b", "e", "l", "l", " ", "O", "v", "e", "r", "h", "e",
                  "a", "d", " ", "P", "r", "e", "s", "s">>],
       [id |-> "bb_row", primaryMuscle |-> "Back", equipment |-> "Barbell",
        pattern |-> "Horizontal Pull",
        name |-> <<"B", "a", "r", "b", "e", "l", "l", " ", "R", "o", "w">>],
       [id |-> "pu", primaryMuscle |-> "Back", equipment |-> "Bodyweight",
        pattern |-> "Vertical Pull",
        name |-> <<"P", "u", "l", "l", "-", "u", "p">>],
       [id |-> "db_curl", primaryMuscle |-> "Biceps", equipment |-> "Dumbbell",
        pattern |-> "Accessory",
        name |-> <<"D", "u", "m", "b", "b", "e", "l", "l", " ", "C", "u", "r", "l">>],
       [id |-> "db_lateral", primaryMuscle |-> "Shoulders", equipment |-> "Dumbbell",
        pattern |-> "Accessory",
        name |-> <<"D", "u", "m", "b", "b", "e", "l", "l", " ", "L", "a", "t", "e", "r",
                  "a", "l", " ", "R", "a", "i", "s", "e">>],
       [id |-> "leg_press", primaryMuscle |-> "Quads", equipment |-> "Machine",
        pattern |-> "Squat",
        name |-> <<"L", "e", "g", " ", "P", "r", "e", "s", "s">>],
       [id |-> "cable_row", primaryMuscle |-> "Back", equipment |-> "Cable",
        pattern |-> "Horizontal Pull",
        name |-> <<"C", "a", "b", "l", "e", " ", "R", "o", "w">>],
       [id |-> "pushup", primaryMuscle |-> "Chest", equipment |-> "Bodyweight",
        pattern |-> "Horizontal Push",
        name |-> <<"P", "u", "s", "h", "-", "u", "p">>],
       [id |-> "kb_swing", primaryMuscle |-> "Hamstrings", equipment |-> "Kettlebell",
        pattern |-> "Hinge",
        name |-> <<"K", "e", "t", "t", "l", "e", "b", "e", "l", "l", " ", "S", "w", "i",
                  "n", "g">>],
       [id |-> "hip_thrust", primaryMuscle |-> "Glutes", equipment |-> "Barbell",
        pattern |-> "Hinge",
        name |-> <<"B", "a", "r", "b", "e", "l", "l", " ", "H", "i", "p", " ", "T", "h",
                  "r", "u", "s", "t">>],
       [id |-> "db_incline", primaryMuscle |-> "Chest", equipment |-> "Dumbbell",
        pattern |-> "Horizontal Push",
        name |-> <<"D", "u", "m", "b", "b", "e", "l", "l", " ", "I", "n", "c", "l", "i",
                  "n", "e", " ", "P", "r", "e", "s", "s">>],
       [id |-> "lat_pulldown", primaryMuscle |-> "Back", equipment |-> "Machine",
        pattern |-> "Vertical Pull",
        name |-> <<"L", "a", "t", " ", "P", "u", "l", "l", "d", "o", "w", "n">>] >>

\* normalize(items): every field through String(); the fields of the
\* catalogs here are strings already.
normalize(items) ==
    toArray([i \in 1..Len(items) |->
                [id |-> items[i].id, name |-> items[i].name,
                 primaryMuscle |-> items[i].primaryMuscle,
                 equipment |-> items[i].equipment, pattern |-> items[i].pattern]],
            Len(items))

\* getExercises(): a copy of the catalog.
getExercises(cat) == SubSeq(cat, 1, Len(cat))

RECURSIVE findById(_, _, _)
findById(cat, id, i) ==
    IF i > Len(cat) THEN <<>>
    ELSE IF cat[i].id = id THEN <<cat[i]>>
    ELSE findById(cat, id, i + 1)

\* getExerciseById(id): the first catalog entry with that id, or null (<<>>).
getExerciseById(cat, id) == findById(cat, id, 1)

\* The filter that treats the empty set like any other set.
byEquipmentAvailability_alwaysFilters(cat, allowedEquip) ==
    SelectSeq(cat, LAMBDA e : e.equipment \in SetOf(allowedEquip))

\* The filter that never filters.
byEquipmentAvailability_neverFilters(cat, allowedEquip) == getExercises(cat)

\* byEquipmentAvailability(allowedEquip)
byEquipmentAvailability(cat, allowedEquip) ==
    LET set == SetOf(allowedEquip)
    IN  IF Cardinality(set) = 0 THEN getExercises(cat)
        ELSE SelectSeq(cat, LAMBDA e : e.equipment \in set)

----------------------------------------------------------------------------
(* plan.js: generation logic *)

\* The set with 'Squat' left out.
COMPOUND_PATTERNS_squatMissing ==
    {"Hinge", "Horizontal Push", "Vertical Push", "Horizontal Pull", "Vertical Pull"}

COMPOUND_PATTERNS ==
    {"Squat", "Hinge", "Horizontal Push", "Vertical Push",
     "Horizontal Pull", "Vertical Pull"}

\* The split rule without the case d = 5.
splitForDays_fiveForgotten(d) ==
    IF d = 3 THEN "full"
    ELSE IF d = 4 THEN "ul"
    ELSE IF d = 6 THEN "ppl"
    ELSE "full"

splitForDays(d) ==
    IF d = 3 THEN "full"
    ELSE IF d = 4 THEN "ul"
    ELSE IF d = 5 \/ d = 6 THEN "ppl"
    ELSE "full"

\* The full-body templates with the pull before the push in day A.
fullTemplates_pullBeforePush ==
    << [name |-> "Full Body A", patterns |-> <<"Squat", "Horizontal Pull", "Horizontal Push", "Accessory">>],
       [name |-> "Full Body B", patterns |-> <<"Hinge", "Vertical Push", "Vertical Pull", "Accessory">>],
       [name |-> "Full Body C", patterns |-> <<"Squat", "Horizontal Push", "Vertical Pull", "Accessory">>] >>

fullTemplates ==
    << [name |-> "Full Body A", patterns |-> <<"Squat", "Horizontal Push", "Horizontal Pull", "Accessory">>],
       [name |-> "Full Body B", patterns |-> <<"Hinge", "Vertical Push", "Vertical Pull", "Accessory">>],
       [name |-> "Full Body C", patterns |-> <<"Squat", "Horizontal Push", "Vertical Pull", "Accessory">>] >>

ulTemplates ==
    << [name |-> "Upper A", patterns |-> <<"Horizontal Push", "Horizontal Pull", "Vertical Push", "Vertical Pull", "Accessory">>],
       [name |-> "Lower A", patterns |-> <<"Squat", "Hinge", "Accessory">>],
       [name |-> "Upper B", patterns |-> <<"Horizontal Push", "Horizontal Pull", "Vertical Push", "Vertical Pull", "Accessory">>],
       [name |-> "Lower B", patterns |-> <<"Squat", "Hinge", "Accessory">>] >>

pplTemplates ==
    << [name |-> "Push A", patterns |-> <<"Horizontal Push", "Vertical Push", "Accessory">>],
       [name |-> "Pull A", patterns |-> <<"Horizontal Pull", "Vertical Pull", "Accessory">>],
       [name |-> "Legs A", patterns |-> <<"Squat", "Hinge", "Accessory">>],
       [name |-> "Push B", patterns |-> <<"Horizontal Push", "Vertical Push", "Accessory">>],
       [name |-> "Pull B", patterns |-> <<"Horizontal Pull", "Vertical Pull", "Accessory">>],
       [name |-> "Legs B", patterns |-> <<"Squat", "Hinge", "Accessory">>] >>

\* The templates of the family, never cut to daysPerWeek.
patternsForSplit_noSlice(split, daysPerWeek) ==
    IF split = "full" THEN fullTemplates
    ELSE IF split = "ul" THEN ulTemplates
    ELSE pplTemplates

patternsForSplit(split, daysPerWeek) ==
    IF split = "full" THEN slice0(fullTemplates, daysPerWeek)
    ELSE IF split = "ul" THEN ulTemplates
    ELSE slice0(pplTemplates, daysPerWeek)

\* defaultDayName(split, idx): list[idx] || fallback name built from idx + 1.
defaultDayName(split, idx) ==
    LET full == <<"Full Body A", "Full Body B", "Full Body C">>
        ul == <<"Upper A", "Lower A", "Upper B", "Lower B">>
        ppl == <<"Push A", "Pull A", "Legs A", "Push B", "Pull B", "Legs B">>
        dayN == "Day " \o ToString(idx + 1)
    IN  IF split = "full"
        THEN (IF idx + 1 <= Len(full) THEN full[idx + 1] ELSE "Full Body " \o ToString(idx + 1))
        ELSE IF split = "ul" THEN (IF idx + 1 <= Len(ul) THEN ul[idx + 1] ELSE dayN)
        ELSE IF split = "ppl" THEN (IF idx + 1 <= Len(ppl) THEN ppl[idx + 1] ELSE dayN)
        ELSE dayN

RECURSIVE insertSorted(_, _, _)
\* x placed after every element of the sorted array that does not compare
\* greater than x (from index i on): the array stays sorted and equal names
\* keep their order.
insertSorted(sorted, x, i) ==
    IF i > Len(sorted) THEN Append(sorted, x)
    ELSE IF localeCompare(sorted[i].name, x.name) > 0
         THEN SubSeq(sorted, 1, i - 1) \o <<x>> \o SubSeq(sorted, i, Len(sorted))
         ELSE insertSorted(sorted, x, i + 1)

RECURSIVE sortByName(_)
\* arr.sort((a, b) => a.name.localeCompare(b.name)); the sort is stable.
sortByName(arr) ==
    IF arr = <<>> THEN <<>>
    ELSE insertSorted(sortByName(SubSeq(arr, 1, Len(arr) - 1)), arr[Len(arr)], 1)

\* The key groupByPattern files an exercise under: ex.pattern || 'Accessory'.
patternKey(ex) == IF ex.pattern = "" THEN "Accessory" ELSE ex.pattern

\* groupByPattern(list): the Map from key to the name-sorted array of the
\* exercises filed under it (@@ builds the whole Map once).
\* The grouping that leaves each pool in the order of the list.
groupByPattern_unsorted(list) ==
    [key \in {patternKey(list[i]) : i \in 1..Len(list)} |->
        SelectSeq(list, LAMBDA e : patternKey(e) = key)] @@ <<>>

groupByPattern(list) ==
    [key \in {patternKey(list[i]) : i \in 1..Len(list)} |->
        sortByName(SelectSeq(list, LAMBDA e : patternKey(e) = key))] @@ <<>>

\* byPat.get(pat) || []
byPatGet(byPat, pat) == IF pat \in DOMAIN byPat THEN byPat[pat] ELSE <<>>

RECURSIVE find(_, _, _)
\* arr.find(e => !usedIds.has(e.id)), from index i on.
find(arr, usedIds, i) ==
    IF i > Len(arr) THEN <<>>
    ELSE IF arr[i].id \notin usedIds THEN <<arr[i]>>
    ELSE find(arr, usedIds, i + 1)

\* The pick that ignores the used ids: arr[0].
findUnusedOrFirst_ignoresUsed(arr, usedIds) ==
    IF arr # <<>> THEN <<arr[1]>> ELSE <<>>

\* arr.find(e => !usedIds.has(e.id)) || arr[0]
findUnusedOrFirst(arr, usedIds) ==
    LET f == find(arr, usedIds, 1)
    IN  IF f # <<>> THEN f
        ELSE IF arr # <<>> THEN <<arr[1]>> ELSE <<>>

\* The pick whose fallback list is left in catalog order.
pickForPattern_fallbackUnsorted(pat, byPat, cat, usedIds) ==
    LET first == findUnusedOrFirst(byPatGet(byPat, pat), usedIds)
    IN  IF first # <<>> THEN first
        ELSE findUnusedOrFirst(SelectSeq(getExercises(cat), LAMBDA e : e.pattern = pat), usedIds)

\* The pick whose fallback takes the whole catalog, whatever the pattern.
pickForPattern_fallbackAnyPattern(pat, byPat, cat, usedIds) ==
    LET first == findUnusedOrFirst(byPatGet(byPat, pat), usedIds)
    IN  IF first # <<>> THEN first
        ELSE findUnusedOrFirst(sortByName(getExercises(cat)), usedIds)

\* The pick without the whole-catalog fallback.
pickForPattern_noFallback(pat, byPat, cat, usedIds) ==
    findUnusedOrFirst(byPatGet(byPat, pat), usedIds)

\* The pick for one pattern (the body of the loop of chooseExercisesForDay).
pickForPattern(pat, byPat, cat, usedIds) ==
    LET pool == byPatGet(byPat, pat)
        first == findUnusedOrFirst(pool, usedIds)
    IN  IF first # <<>> THEN first
        ELSE LET any == sortByName(SelectSeq(getExercises(cat), LAMBDA e : e.pattern = pat))
             IN  findUnusedOrFirst(any, usedIds)

RECURSIVE chooseLoop_prepends(_, _, _, _, _, _, _)
\* The loop that puts each pick in front of the earlier ones (unshift where
\* push is meant).
chooseLoop_prepends(patterns, byPat, cat, i, chosen, usedIds, log) ==
    IF i > Len(patterns) THEN [chosen |-> chosen, log |-> log]
    ELSE LET pat == patterns[i]
             pick == pickForPattern(pat, byPat, cat, usedIds)
             entry == [pat |-> pat, used |-> usedIds, pick |-> pick]
         IN  IF pick # <<>>
             THEN chooseLoop_prepends(patterns, byPat, cat, i + 1, <<pick[1]>> \o chosen,
                                      usedIds \cup {pick[1].id}, Append(log, entry))
             ELSE chooseLoop_prepends(patterns, byPat, cat, i + 1, chosen, usedIds,
                                      Append(log, entry))

RECURSIVE chooseLoop(_, _, _, _, _, _, _)
\* The loop over req.patterns from index i on; log keeps, per pattern, the
\* pattern, the used ids before the pick, and the pick.
chooseLoop(patterns, byPat, cat, i, chosen, usedIds, log) ==
    IF i > Len(patterns) THEN [chosen |-> chosen, log |-> log]
    ELSE LET pat == patterns[i]
             pick == pickForPattern(pat, byPat, cat, usedIds)
             entry == [pat |-> pat, used |-> usedIds, pick |-> pick]
         IN  IF pick # <<>>
             THEN chooseLoop(patterns, byPat, cat, i + 1, Append(chosen, pick[1]),
                             usedIds \cup {pick[1].id}, Append(log, entry))
             ELSE chooseLoop(patterns, byPat, cat, i + 1, chosen, usedIds, Append(log, entry))

\* What ex.id, ex.name, ... give when ex is an array and not an exercise.
ArrayAsExercise ==
    [id |-> "undefined", name |-> <<>>, primaryMuscle |-> "undefined",
     equipment |-> "undefined", pattern |-> "undefined"]

\* The day-level fallback pushing the slice itself (chosen.push(arr), no
\* spread): chosen holds one element, an array.
chooseExercisesForDay_pushesArray(req, byPat, cat) ==
    LET r == chooseLoop(req.patterns, byPat, cat, 1, <<>>, {}, <<>>)
    IN  [chosen |-> IF Len(r.chosen) = 0 THEN <<ArrayAsExercise>> ELSE r.chosen,
         log |-> r.log]

\* The day-level fallback without its limit of three (the whole catalog).
chooseExercisesForDay_fallbackTakesAll(req, byPat, cat) ==
    LET r == chooseLoop(req.patterns, byPat, cat, 1, <<>>, {}, <<>>)
    IN  [chosen |-> IF Len(r.chosen) = 0 THEN getExercises(cat) ELSE r.chosen,
         log |-> r.log]

\* chooseExercisesForDay(req, byPat), with the log of its loop.
chooseExercisesForDay(req, byPat, cat) ==
    LET r == chooseLoop(req.patterns, byPat, cat, 1, <<>>, {}, <<>>)
    IN  [chosen |-> IF Len(r.chosen) = 0 THEN slice0(getExercises(cat), 3) ELSE r.chosen,
         log |-> r.log]

\* The prescription that takes an exercise it does not find for a
\* non-compound one.
defaultPrescriptionForExercise_unknownAccessory(cat, exerciseId, goal) ==
    LET ex == getExerciseById(cat, exerciseId)
        isCompound == IF ex # <<>> THEN ex[1].pattern \in COMPOUND_PATTERNS ELSE FALSE
    IN  IF goal = "strength"
        THEN [targetSets |-> IF isCompound THEN 5 ELSE 3,
              repRange |-> IF isCompound THEN <<3, 5>> ELSE <<6, 8>>]
        ELSE [targetSets |-> IF isCompound THEN 3 ELSE 3,
              repRange |-> IF isCompound THEN <<8, 12>> ELSE <<12, 15>>]

\* The prescription that has nothing for a goal it does not know.
defaultPrescriptionForExercise_unknownGoalEmpty(cat, exerciseId, goal) ==
    LET ex == getExerciseById(cat, exerciseId)
        isCompound == IF ex # <<>> THEN ex[1].pattern \in COMPOUND_PATTERNS ELSE TRUE
    IN  IF goal = "strength"
        THEN [targetSets |-> IF isCompound THEN 5 ELSE 3,
              repRange |-> IF isCompound THEN <<3, 5>> ELSE <<6, 8>>]
        ELSE IF goal = "hypertrophy"
        THEN [targetSets |-> IF isCompound THEN 3 ELSE 3,
              repRange |-> IF isCompound THEN <<8, 12>> ELSE <<12, 15>>]
        ELSE [targetSets |-> 0, repRange |-> <<0, 0>>]

\* The prescription that takes every exercise for a compound one.
defaultPrescriptionForExercise_allCompound(cat, exerciseId, goal) ==
    IF goal = "strength"
    THEN [targetSets |-> 5, repRange |-> <<3, 5>>]
    ELSE [targetSets |-> 3, repRange |-> <<8, 12>>]

defaultPrescriptionForExercise(cat, exerciseId, goal) ==
    LET ex == getExerciseById(cat, exerciseId)
        isCompound == IF ex # <<>> THEN ex[1].pattern \in COMPOUND_PATTERNS ELSE TRUE
    IN  IF goal = "strength"
        THEN [targetSets |-> IF isCompound THEN 5 ELSE 3,
              repRange |-> IF isCompound THEN <<3, 5>> ELSE <<6, 8>>]
        ELSE [targetSets |-> IF isCompound THEN 3 ELSE 3,
              repRange |-> IF isCompound THEN <<8, 12>> ELSE <<12, 15>>]

RECURSIVE dedupeFrom(_, _, _, _)
dedupeFrom(exList, i, seen, out) ==
    IF i > Len(exList) THEN out
    ELSE IF exList[i].exerciseId \in seen THEN dedupeFrom(exList, i + 1, seen, out)
    ELSE dedupeFrom(exList, i + 1, seen \cup {exList[i].exerciseId}, Append(out, exList[i]))

\* The deduplication that keeps everything.
dedupeExercises_keepsAll(exList) == exList

dedupeExercises(exList) == dedupeFrom(exList, 1, {}, <<>>)

\* The mapping that reads the wrong field for the id (ex.primaryMuscle where
\* ex.id is meant).
prescribe_wrongField(chosen, cat, goal) ==
    toArray([k \in 1..Len(chosen) |->
                LET p == defaultPrescriptionForExercise(cat, chosen[k].id, goal)
                IN  [exerciseId |-> chosen[k].primaryMuscle,
                     targetSets |-> p.targetSets,
                     repRange |-> p.repRange]],
            Len(chosen))

\* chosen.map(ex => ({ exerciseId: ex.id, ...defaultPrescriptionForExercise(ex.id, goal) }))
prescribe(chosen, cat, goal) ==
    toArray([k \in 1..Len(chosen) |->
                LET p == defaultPrescriptionForExercise(cat, chosen[k].id, goal)
                IN  [exerciseId |-> chosen[k].id,
                     targetSets |-> p.targetSets,
                     repRange |-> p.repRange]],
            Len(chosen))

\* The callback that leaves the Accessory pattern out of a strength day.
generateDay_strengthSkipsAccessory(req, i, byPat, cat, goal, split) ==
    LET patterns == IF goal = "strength"
                    THEN SelectSeq(req.patterns, LAMBDA pat : pat # "Accessory")
                    ELSE req.patterns
        picked == chooseExercisesForDay([name |-> req.name, patterns |-> patterns], byPat, cat)
    IN  [day |-> [name |-> IF req.name # "" THEN req.name ELSE defaultDayName(split, i),
                  exercises |-> dedupeExercises(prescribe(picked.chosen, cat, goal))],
         chosen |-> picked.chosen,
         log |-> picked.log]

\* The callback that names every day by position, counting from 1 where the
\* index counts from 0.
generateDay_positionalOffByOne(req, i, byPat, cat, goal, split) ==
    LET picked == chooseExercisesForDay(req, byPat, cat)
    IN  [day |-> [name |-> defaultDayName(split, i + 1),
                  exercises |-> dedupeExercises(prescribe(picked.chosen, cat, goal))],
         chosen |-> picked.chosen,
         log |-> picked.log]

\* The callback whose used ids outlive a day: from the third day on the
\* selection starts with the ids an earlier day of the same template took.
generateDay_usedCarriesOver(req, i, byPat, cat, goal, split) ==
    LET first == chooseExercisesForDay(req, byPat, cat)
        r == chooseLoop(req.patterns, byPat, cat, 1, <<>>, 
                        {first.chosen[k].id : k \in 1..Len(first.chosen)}, <<>>)
        picked == IF i < 2 THEN first
                  ELSE [chosen |-> IF Len(r.chosen) = 0 THEN slice0(getExercises(cat), 3)
                                   ELSE r.chosen,
                        log |-> r.log]
    IN  [day |-> [name |-> IF req.name # "" THEN req.name ELSE defaultDayName(split, i),
                  exercises |-> dedupeExercises(prescribe(picked.chosen, cat, goal))],
         chosen |-> picked.chosen,
         log |-> picked.log]

\* The callback of dayReqs.map in generatePlan for template req at index i
\* (0-based): the day, and what chooseExercisesForDay did for it.
generateDay(req, i, byPat, cat, goal, split) ==
    LET picked == chooseExercisesForDay(req, byPat, cat)
    IN  [day |-> [name |-> IF req.name # "" THEN req.name ELSE defaultDayName(split, i),
                  exercises |-> dedupeExercises(prescribe(picked.chosen, cat, goal))],
         chosen |-> picked.chosen,
         log |-> picked.log]

\* generatePlan({goal, daysPerWeek, equipment}) with the intermediate values
\* of the call: the plan is the field plan of the result.
generatePlanRun(cat, goal, daysPerWeek, equipment) ==
    LET avail == byEquipmentAvailability(cat, equipment)
        byPat == groupByPattern(avail)
        split == splitForDays(daysPerWeek)
        dayReqs == patternsForSplit(split, daysPerWeek)
        n == Len(dayReqs)
        runs == toArray([i \in 1..n |-> generateDay(dayReqs[i], i - 1, byPat, cat, goal, split)], n)
    IN  [plan |-> [name |-> "My Plan",
                   meta |-> [goal |-> goal, daysPerWeek |-> daysPerWeek,
                             equipment |-> SubSeq(equipment, 1, Len(equipment))],
                   days |-> toArray([i \in 1..n |-> runs[i].day], n)],
         trace |-> [avail |-> avail, split |-> split,
                    days |-> toArray([i \in 1..n |-> [chosen |-> runs[i].chosen, log |-> runs[i].log]], n)]]

generatePlan(cat, goal, daysPerWeek, equipment) ==
    generatePlanRun(cat, goal, daysPerWeek, equipment).plan

----------------------------------------------------------------------------
(* plan.js: the plan editor *)

\* The decimal numerals typed into the editor's inputs, with their values.
Numerals == [t \in {"0", "2", "5", "8", "12"} |->
                CASE t = "0" -> 0 [] t = "2" -> 2 [] t = "5" -> 5 [] t = "8" -> 8
                  [] t = "12" -> 12]

\* Number(val): <<n>>, or <<>> for NaN; the empty string is 0.
Number(val) ==
    IF val = "" THEN <<0>>
    ELSE IF val \in DOMAIN Numerals THEN <<Numerals[val]>> ELSE <<>>

\* parseInt(s.trim(), 10): <<n>>, or <<>> for NaN; the empty string is NaN.
parseInt(val) == IF val \in DOMAIN Numerals THEN <<Numerals[val]>> ELSE <<>>

\* utils.js toNumber(val, fallback)
toNumber(val, fallback) ==
    LET n == Number(val) IN IF n # <<>> THEN n[1] ELSE fallback

\* String(text).split('-').map(s => parseInt(s.trim(), 10)).filter(Number.isFinite),
\* text given as the array of its parts between the '-' signs.
rangeParts(text) ==
    LET parsed == SubSeq([k \in 1..Len(text) |-> parseInt(text[k])], 1, Len(text))
        finite == SelectSeq(parsed, LAMBDA n : n # <<>>)
    IN  SubSeq([k \in 1..Len(finite) |-> finite[k][1]], 1, Len(finite))

\* The plan with day dayIdx (0-based) holding the exercises exs.
withExercises(p, dayIdx, exs) == [p EXCEPT !.days[dayIdx + 1].exercises = exs]

\* arr.splice(idx, 1) and arr.splice(idx, 0, it), idx 0-based: the array after.
spliceOut(arr, idx) == SubSeq(arr, 1, idx) \o SubSeq(arr, idx + 2, Len(arr))
spliceIn(arr, idx, it) == SubSeq(arr, 1, idx) \o <<it>> \o SubSeq(arr, idx + 1, Len(arr))

----------------------------------------------------------------------------
(* Inputs *)

Ids == {"e1", "e2"}
EquipAll == {"Barbell", "Dumbbell"}
Goals == {"strength", "hypertrophy"}
DaysInputs == (0 - NegDays)..MaxDays
EquipInputs == {<<>>, <<"Barbell">>, <<"Barbell", "Dumbbell">>}

\* The exercises the model's catalogs are made of: two ids, each with its
\* name ("B" for e1, "a" for e2), in either equipment and either pattern.
ExerciseUniverse ==
    {[id |-> id, name |-> IF id = "e1" THEN <<"B">> ELSE <<"a">>,
      primaryMuscle |-> "Muscle", equipment |-> eq, pattern |-> pat] :
        id \in Ids, eq \in EquipAll, pat \in {"Squat", "Accessory"}}

\* Exercises without a pattern (pattern: '' in the data), next to Accessory
\* exercises: e1 is a Barbell exercise here, e2 a Dumbbell exercise.
UntaggedUniverse ==
    {[id |-> id, name |-> IF id = "e1" THEN <<"B">> ELSE <<"a">>,
      primaryMuscle |-> "Muscle",
      equipment |-> IF id = "e1" THEN "Barbell" ELSE "Dumbbell", pattern |-> pat] :
        id \in Ids, pat \in {"", "Accessory"}}

\* The arrays of up to MaxCatalog exercises of U, no record twice.
arraysOver(U) ==
    UNION {{c \in [1..n -> U] : \A i, j \in 1..n : i # j => c[i] # c[j]} :
              n \in 0..MaxCatalog}

\* Catalogs: those over ExerciseUniverse and those over UntaggedUniverse.
Catalogs == arraysOver(ExerciseUniverse) \cup arraysOver(UntaggedUniverse)

\* Catalogs with an exercise of a pattern no template lists ("Core"), one
\* without a pattern, a Squat and an Accessory exercise, their four ids with
\* names of one and two characters; the same record
\* may be in a catalog more than once, and the catalogs are up to
\* MaxWideCatalog long.
WideUniverse ==
    {[id |-> "e1", name |-> <<"B">>, primaryMuscle |-> "Muscle",
      equipment |-> "Barbell", pattern |-> "Core"],
     [id |-> "e2", name |-> <<"a">>, primaryMuscle |-> "Muscle",
      equipment |-> "Dumbbell", pattern |-> "Accessory"],
     [id |-> "e3", name |-> <<"a", "B">>, primaryMuscle |-> "Muscle",
      equipment |-> "Barbell", pattern |-> "Squat"],
     [id |-> "e4", name |-> <<"B", "a">>, primaryMuscle |-> "Muscle",
      equipment |-> "Dumbbell", pattern |-> ""]}

WideCatalogs == UNION {[1..n -> WideUniverse] : n \in 0..MaxWideCatalog}

\* The inputs of the wide specifications: a goal that is neither of the two
\* known ones, one day count per split family, and two equipment sets.
WideGoals == {"strength", "hypertrophy", "endurance"}
WideDays == {3, 4, 5}
WideEquip == {<<>>, <<"Barbell">>}

\* The ids defaultPrescriptionForExercise is applied to: those of the wide
\* catalogs and one that no catalog has.
LookupIds == {"e1", "e2", "e3", "e4", "e9"}

\* The catalog of the editor specification and what is typed into the add row.
EditCatalog ==
    << [id |-> "e3", name |-> <<"a", "B">>, primaryMuscle |-> "Muscle",
        equipment |-> "Barbell", pattern |-> "Squat"],
       [id |-> "e2", name |-> <<"a">>, primaryMuscle |-> "Muscle",
        equipment |-> "Dumbbell", pattern |-> "Accessory"] >>
SetsTexts == {"", "abc", "2"}
RangeTexts == {<<"12", "8">>, <<"5">>, <<"0", "5">>}

\* Storage.getPlan() on an empty store.
DefaultPlan ==
    [name |-> "My Plan", days |-> <<>>,
     meta |-> [goal |-> "hypertrophy", daysPerWeek |-> 3, equipment |-> <<>>]]

\* The heap at load: state.selectedEquip is an empty array (address 1), and
\* the equipment array of the plan read from storage is another (address 2).
\* The catalog is loaded, nothing is cached and no workout is stored.
ElsewhereInit ==
    /\ arrays = << <<>>, <<>> >>
    /\ selectedEquip = 1
    /\ metaEquipment = 2
    /\ LOADED = TRUE
    /\ cache = [items |-> <<>>]
    /\ loads = <<>>
    /\ fetches = 0
    /\ workouts = <<>>

NoTrace == [avail |-> <<>>, split |-> "", days |-> <<>>]

\* No handler is running.
Idle == [pc |-> "idle"]

\* A plan saved in an earlier session.
SavedPlan ==
    [name |-> "My Plan",
     days |-> << [name |-> "Full Body A",
                  exercises |-> << [exerciseId |-> "e3", targetSets |-> 4,
                                    repRange |-> <<6, 10>>] >>] >>,
     meta |-> [goal |-> "strength", daysPerWeek |-> 2, equipment |-> <<"Barbell">>]]

----------------------------------------------------------------------------
(* The state machine *)

Init ==
    /\ EXERCISES \in Catalogs
    /\ plan = DefaultPlan
    /\ generated = "no"
    /\ trace = NoTrace
    /\ frame = Idle
    /\ stored = DefaultPlan
    /\ ElsewhereInit

\* The handler that leaves the catalog itself sorted by name.
Generate_sortsCatalog(goal, dpw, equipment) ==
    /\ generated = "no"
    /\ \E run \in {generatePlanRun(EXERCISES, goal, dpw, equipment)} :
        /\ plan' = run.plan
        /\ trace' = run.trace
    /\ generated' = "once"
    /\ EXERCISES' = sortByName(EXERCISES)
    /\ UNCHANGED <<frame, stored, elsewhere>>

\* The first click on #btnGeneratePlan, the form holding goal, dpw and
\* equipment: state.plan = generatePlan({goal, daysPerWeek, equipment}).
Generate(goal, dpw, equipment) ==
    /\ generated = "no"
    /\ frame = Idle
    /\ \E run \in {generatePlanRun(EXERCISES, goal, dpw, equipment)} :
        /\ plan' = run.plan
        /\ trace' = run.trace
    /\ generated' = "once"
    /\ UNCHANGED <<EXERCISES, frame, stored, elsewhere>>

\* A second click on #btnGeneratePlan, the form unchanged.
GenerateAgain ==
    /\ generated = "once"
    /\ \E run \in {generatePlanRun(EXERCISES, plan.meta.goal, plan.meta.daysPerWeek,
                                   plan.meta.equipment)} :
        /\ plan' = run.plan
        /\ trace' = run.trace
    /\ generated' = "again"
    /\ UNCHANGED <<EXERCISES, frame, stored, elsewhere>>

Next == \E goal \in Goals, dpw \in DaysInputs, equipment \in EquipInputs :
            Generate(goal, dpw, equipment)

Spec == Init /\ [][Next]_vars

NextTwice ==
    \/ \E goal \in Goals, dpw \in DaysInputs, equipment \in EquipInputs :
            Generate(goal, dpw, equipment)
    \/ GenerateAgain

SpecTwice == Init /\ [][NextTwice]_vars

InitWide ==
    /\ EXERCISES \in WideCatalogs
    /\ plan = DefaultPlan
    /\ generated = "no"
    /\ trace = NoTrace
    /\ frame = Idle
    /\ stored = DefaultPlan
    /\ ElsewhereInit

\* A second click on #btnGeneratePlan after another goal was selected, the
\* rest of the form unchanged.
GenerateOtherGoal(goal) ==
    /\ generated = "once"
    /\ goal # plan.meta.goal
    /\ \E run \in {generatePlanRun(EXERCISES, goal, plan.meta.daysPerWeek,
                                   plan.meta.equipment)} :
        /\ plan' = run.plan
        /\ trace' = run.trace
    /\ generated' = "switched"
    /\ UNCHANGED <<EXERCISES, frame, stored, elsewhere>>

NextWide ==
    \/ \E goal \in WideGoals, dpw \in WideDays, equipment \in WideEquip :
            Generate(goal, dpw, equipment)
    \/ \E goal \in WideGoals : GenerateOtherGoal(goal)

SpecWide == InitWide /\ [][NextWide]_vars

\* After construction with or without a saved plan: state.plan is
\* Storage.getPlan().
InitCall ==
    /\ EXERCISES \in WideCatalogs
    /\ stored \in {DefaultPlan, SavedPlan}
    /\ ElsewhereInit
    /\ plan = stored
    /\ generated = "no"
    /\ trace = NoTrace
    /\ frame = Idle

\* The click handler of #btnGeneratePlan up to the call: the locals goal, dpw
\* and equipment are read from the form and the chips.
ReadForm(goal, dpw, equipment) ==
    /\ frame = Idle
    /\ generated = "no"
    /\ frame' = [pc |-> "read", goal |-> goal, dpw |-> dpw, equipment |-> equipment]
    /\ UNCHANGED <<EXERCISES, plan, generated, trace, stored, elsewhere>>

\* The call that leaves the catalog sorted by name when no equipment is
\* given (the pools being the catalog's own array, not copies).
CallGeneratePlan_sortsCatalog ==
    /\ frame.pc = "read"
    /\ \E run \in {generatePlanRun(EXERCISES, frame.goal, frame.dpw, frame.equipment)} :
        /\ frame' = [pc |-> "called", goal |-> frame.goal, dpw |-> frame.dpw,
                     equipment |-> frame.equipment, generated |-> run.plan]
        /\ trace' = run.trace
    /\ EXERCISES' = IF frame.equipment = <<>> THEN sortByName(EXERCISES) ELSE EXERCISES
    /\ UNCHANGED <<plan, generated, stored, elsewhere>>

\* const generated = generatePlan({ goal, daysPerWeek: dpw, equipment }): the
\* call returns into the local generated; nothing else is written.
CallGeneratePlan ==
    /\ frame.pc = "read"
    /\ \E run \in {generatePlanRun(EXERCISES, frame.goal, frame.dpw, frame.equipment)} :
        /\ frame' = [pc |-> "called", goal |-> frame.goal, dpw |-> frame.dpw,
                     equipment |-> frame.equipment, generated |-> run.plan]
        /\ trace' = run.trace
    /\ UNCHANGED <<EXERCISES, plan, generated, stored, elsewhere>>

\* state.plan = generated, and the handler returns.
AssignPlan ==
    /\ frame.pc = "called"
    /\ plan' = frame.generated
    /\ frame' = Idle
    /\ generated' = "once"
    /\ UNCHANGED <<EXERCISES, trace, stored, elsewhere>>

\* defaultPrescriptionForExercise(exerciseId, goal) applied to an id and a
\* goal, as addExerciseToDay applies it; the id need not be in the catalog.
LookupDefaults(exerciseId, goal) ==
    /\ frame = Idle
    /\ generated = "no"
    /\ frame' = [pc |-> "looked", exerciseId |-> exerciseId, goal |-> goal,
                 defaults |-> defaultPrescriptionForExercise(EXERCISES, exerciseId, goal)]
    /\ UNCHANGED <<EXERCISES, plan, generated, trace, stored, elsewhere>>

NextCall ==
    \/ \E goal \in WideGoals, dpw \in WideDays, equipment \in WideEquip :
            ReadForm(goal, dpw, equipment)
    \/ CallGeneratePlan
    \/ AssignPlan
    \/ \E exerciseId \in LookupIds, goal \in WideGoals : LookupDefaults(exerciseId, goal)

SpecCall == InitCall /\ [][NextCall]_vars

\* The editor on a one-day strength plan that was just generated.
InitEdit ==
    /\ EXERCISES = EditCatalog
    /\ plan = generatePlan(EditCatalog, "strength", 1, <<>>)
    /\ generated = "once"
    /\ trace = NoTrace
    /\ frame = Idle
    /\ stored = DefaultPlan
    /\ ElsewhereInit

\* addExerciseToDay(dayIndex, exerciseId), from the "Add" button of a library
\* row: the exercise is pushed with its default prescription.
addExerciseToDay(dayIndex, exerciseId) ==
    /\ frame = Idle
    /\ dayIndex + 1 \in 1..Len(plan.days)
    /\ Len(plan.days[dayIndex + 1].exercises) < MaxDayExercises
    /\ LET defaults == defaultPrescriptionForExercise(EXERCISES, exerciseId, plan.meta.goal)
           pex == [exerciseId |-> exerciseId, targetSets |-> defaults.targetSets,
                   repRange |-> defaults.repRange]
       IN  plan' = withExercises(plan, dayIndex, Append(plan.days[dayIndex + 1].exercises, pex))
    /\ UNCHANGED <<EXERCISES, generated, trace, frame, stored, elsewhere>>

\* The "Add" button of a day's add row, the row holding id, setsText and
\* rangeText.
AddRowClick(dayIdx, id, setsText, rangeText) ==
    /\ frame = Idle
    /\ dayIdx + 1 \in 1..Len(plan.days)
    /\ Len(plan.days[dayIdx + 1].exercises) < MaxDayExercises
    /\ LET sets == Max(1, toNumber(setsText, 3))
           parts == rangeParts(rangeText)
           repRange == IF Len(parts) = 2
                       THEN <<Min(parts[1], parts[2]), Max(parts[1], parts[2])>>
                       ELSE IF plan.meta.goal = "strength" THEN <<3, 5>> ELSE <<8, 12>>
           pex == [exerciseId |-> id, targetSets |-> sets, repRange |-> repRange]
       IN  plan' = withExercises(plan, dayIdx, Append(plan.days[dayIdx + 1].exercises, pex))
    /\ UNCHANGED <<EXERCISES, generated, trace, frame, stored, elsewhere>>

\* onchange of an exercise row's select: the row's exerciseId is the value.
SelectExercise(dayIdx, exIdx, id) ==
    /\ frame = Idle
    /\ dayIdx + 1 \in 1..Len(plan.days)
    /\ exIdx + 1 \in 1..Len(plan.days[dayIdx + 1].exercises)
    /\ plan' = [plan EXCEPT !.days[dayIdx + 1].exercises[exIdx + 1].exerciseId = id]
    /\ UNCHANGED <<EXERCISES, generated, trace, frame, stored, elsewhere>>

\* oninput of an exercise row's sets field.
TargetSetsInput(dayIdx, exIdx, setsText) ==
    /\ frame = Idle
    /\ dayIdx + 1 \in 1..Len(plan.days)
    /\ exIdx + 1 \in 1..Len(plan.days[dayIdx + 1].exercises)
    /\ plan' = [plan EXCEPT !.days[dayIdx + 1].exercises[exIdx + 1].targetSets =
                                Max(1, toNumber(setsText, 1))]
    /\ UNCHANGED <<EXERCISES, generated, trace, frame, stored, elsewhere>>

\* oninput of an exercise row's rep range field: the range is replaced only
\* when the text has two numeric parts.
RepRangeInput(dayIdx, exIdx, rangeText) ==
    /\ frame = Idle
    /\ dayIdx + 1 \in 1..Len(plan.days)
    /\ exIdx + 1 \in 1..Len(plan.days[dayIdx + 1].exercises)
    /\ LET parts == rangeParts(rangeText)
       IN  IF Len(parts) = 2
           THEN plan' = [plan EXCEPT !.days[dayIdx + 1].exercises[exIdx + 1].repRange =
                                        <<Min(parts[1], parts[2]), Max(parts[1], parts[2])>>]
           ELSE plan' = plan
    /\ UNCHANGED <<EXERCISES, generated, trace, frame, stored, elsewhere>>

\* The move that puts the exercise one place too far.
moveExercise_insertsAfter(dayIdx, exIdx, dir) ==
    /\ frame = Idle
    /\ dayIdx + 1 \in 1..Len(plan.days)
    /\ exIdx + 1 \in 1..Len(plan.days[dayIdx + 1].exercises)
    /\ LET exs == plan.days[dayIdx + 1].exercises
           to == exIdx + dir
       IN  IF to < 0 \/ to >= Len(exs) THEN plan' = plan
           ELSE plan' = withExercises(plan, dayIdx,
                                      spliceIn(spliceOut(exs, exIdx), Min(to + 1, Len(exs) - 1),
                                               exs[exIdx + 1]))
    /\ UNCHANGED <<EXERCISES, generated, trace, frame, stored, elsewhere>>

\* moveExercise(dayIdx, exIdx, dir); nothing happens when the target index
\* is outside the day.
moveExercise(dayIdx, exIdx, dir) ==
    /\ frame = Idle
    /\ dayIdx + 1 \in 1..Len(plan.days)
    /\ exIdx + 1 \in 1..Len(plan.days[dayIdx + 1].exercises)
    /\ LET exs == plan.days[dayIdx + 1].exercises
           to == exIdx + dir
       IN  IF to < 0 \/ to >= Len(exs) THEN plan' = plan
           ELSE plan' = withExercises(plan, dayIdx,
                                      spliceIn(spliceOut(exs, exIdx), to, exs[exIdx + 1]))
    /\ UNCHANGED <<EXERCISES, generated, trace, frame, stored, elsewhere>>

\* removeExercise(dayIdx, exIdx)
removeExercise(dayIdx, exIdx) ==
    /\ frame = Idle
    /\ dayIdx + 1 \in 1..Len(plan.days)
    /\ exIdx + 1 \in 1..Len(plan.days[dayIdx + 1].exercises)
    /\ plan' = withExercises(plan, dayIdx, spliceOut(plan.days[dayIdx + 1].exercises, exIdx))
    /\ UNCHANGED <<EXERCISES, generated, trace, frame, stored, elsewhere>>

\* The days and rows the editor shows, and the ids its selects offer.
DayIndexes == 0..(Len(plan.days) - 1)
RowIndexes(dayIdx) == 0..(Len(plan.days[dayIdx + 1].exercises) - 1)
OfferedIds == {EXERCISES[i].id : i \in 1..Len(EXERCISES)}

NextEdit ==
    \/ \E dayIndex \in DayIndexes, id \in OfferedIds : addExerciseToDay(dayIndex, id)
    \/ \E dayIdx \in DayIndexes, id \in OfferedIds, setsText \in SetsTexts,
           rangeText \in RangeTexts : AddRowClick(dayIdx, id, setsText, rangeText)
    \/ \E dayIdx \in DayIndexes : \E exIdx \in RowIndexes(dayIdx), id \in OfferedIds :
           SelectExercise(dayIdx, exIdx, id)
    \/ \E dayIdx \in DayIndexes : \E exIdx \in RowIndexes(dayIdx), setsText \in SetsTexts :
           TargetSetsInput(dayIdx, exIdx, setsText)
    \/ \E dayIdx \in DayIndexes : \E exIdx \in RowIndexes(dayIdx), rangeText \in RangeTexts :
           RepRangeInput(dayIdx, exIdx, rangeText)
    \/ \E dayIdx \in DayIndexes : \E exIdx \in RowIndexes(dayIdx), dir \in {0 - 1, 1} :
           moveExercise(dayIdx, exIdx, dir)
    \/ \E dayIdx \in DayIndexes : \E exIdx \in RowIndexes(dayIdx) :
           removeExercise(dayIdx, exIdx)

SpecEdit == InitEdit /\ [][NextEdit]_vars

----------------------------------------------------------------------------
(* The editor on a plan of two days: exercises are added from the library,  *)
(* moved and removed.                                                       *)

InitMove ==
    /\ EXERCISES = EditCatalog
    /\ plan = generatePlan(EditCatalog, "strength", 2, <<>>)
    /\ generated = "once"
    /\ trace = NoTrace
    /\ frame = Idle
    /\ stored = DefaultPlan
    /\ ElsewhereInit

NextMove ==
    \/ \E dayIndex \in DayIndexes, id \in OfferedIds : addExerciseToDay(dayIndex, id)
    \/ \E dayIdx \in DayIndexes : \E exIdx \in RowIndexes(dayIdx), dir \in {0 - 1, 1} :
           moveExercise(dayIdx, exIdx, dir)
    \/ \E dayIdx \in DayIndexes : \E exIdx \in RowIndexes(dayIdx) :
           removeExercise(dayIdx, exIdx)

SpecMove == InitMove /\ [][NextMove]_vars

----------------------------------------------------------------------------
(* storage.js: the stored workouts.  workouts is the array under the key    *)
(* of the workouts; the workouts are plain data (strings, finite numbers,   *)
(* arrays, objects), which JSON.stringify and JSON.parse give back equal.   *)
(* write() swallows a failing localStorage.setItem: written tells whether   *)
(* the store took the value.  frame keeps the last call and its outcome.    *)

\* The dates of the model, in the order of String.localeCompare.
Dates == <<"2024-01-31", "2024-02-01", "2024-02-02">>

\* a.date.localeCompare(b.date) on the dates of the model
dateCompare(a, b) ==
    LET pos(d) == CHOOSE i \in 1..Len(Dates) : Dates[i] = d
    IN  IF pos(a) < pos(b) THEN 0 - 1 ELSE IF pos(a) > pos(b) THEN 1 ELSE 0

WorkoutBodies ==
    {<<>>, << [exerciseId |-> "e1", sets |-> << [reps |-> 5, weight |-> 0] >>] >>}

Workouts == {[date |-> Dates[i], exercises |-> b] : i \in 1..Len(Dates), b \in WorkoutBodies}

InitStore ==
    /\ workouts \in {<<>>,
                      << [date |-> Dates[2], exercises |-> <<>>] >>,
                      << [date |-> Dates[3], exercises |-> <<>>],
                         [date |-> Dates[1], exercises |-> <<>>] >>}
    /\ EXERCISES = EditCatalog
    /\ plan = DefaultPlan
    /\ generated = "no"
    /\ trace = NoTrace
    /\ frame = Idle
    /\ stored = DefaultPlan
    /\ arrays = << <<>>, <<>> >>
    /\ selectedEquip = 1
    /\ metaEquipment = 2
    /\ LOADED = TRUE
    /\ cache = [items |-> <<>>]
    /\ loads = <<>>
    /\ fetches = 0

\* all.findIndex(w => w.date === date), 0-based, -1 when there is none.
findIndex(all, date) ==
    IF \E i \in 1..Len(all) : all[i].date = date
    THEN (CHOOSE i \in 1..Len(all) :
              all[i].date = date /\ \A j \in 1..(i - 1) : all[j].date # date) - 1
    ELSE 0 - 1

RECURSIVE insertByDate(_, _, _)
\* arr, sorted by date, with w put behind the elements that are not after it.
insertByDate(arr, w, i) ==
    IF i > Len(arr) THEN Append(arr, w)
    ELSE IF dateCompare(w.date, arr[i].date) < 0
         THEN SubSeq(arr, 1, i - 1) \o <<w>> \o SubSeq(arr, i, Len(arr))
         ELSE insertByDate(arr, w, i + 1)

RECURSIVE sortByDate(_)
\* all.sort((a, b) => a.date.localeCompare(b.date)): a stable sort.
sortByDate(arr) ==
    IF arr = <<>> THEN <<>>
    ELSE insertByDate(sortByDate(SubSeq(arr, 1, Len(arr) - 1)), arr[Len(arr)], 1)

\* The array upsertWorkout saves: workout in the place of the first stored
\* workout of its date, at the end when there is none.
upserted(all, workout) ==
    LET idx == findIndex(all, workout.date)
    IN  IF idx >= 0 THEN [all EXCEPT ![idx + 1] = workout] ELSE Append(all, workout)

\* The upsert that always appends.
upsertWorkout_alwaysPushes(workout, written) ==
    /\ Len(workouts) < MaxWorkouts
    /\ workouts' = IF written THEN Append(workouts, workout) ELSE workouts
    /\ frame' = [pc |-> "returned", call |-> "upsertWorkout", date |-> workout.date,
                 workout |-> <<workout>>, written |-> written]
    /\ UNCHANGED <<EXERCISES, plan, generated, trace, stored, arrays, selectedEquip,
                   metaEquipment, loader>>

\* Storage.upsertWorkout(workout), storage.js
upsertWorkout(workout, written) ==
    /\ findIndex(workouts, workout.date) >= 0 \/ Len(workouts) < MaxWorkouts
    /\ workouts' = IF written THEN upserted(workouts, workout) ELSE workouts
    /\ frame' = [pc |-> "returned", call |-> "upsertWorkout", date |-> workout.date,
                 workout |-> <<workout>>, written |-> written]
    /\ UNCHANGED <<EXERCISES, plan, generated, trace, stored, arrays, selectedEquip,
                   metaEquipment, loader>>

\* Storage.upsertWorkout(workout) of the workout-only storage module, which
\* keeps the array sorted by date.
upsertWorkoutSorted(workout, written) ==
    /\ findIndex(workouts, workout.date) >= 0 \/ Len(workouts) < MaxWorkouts
    /\ workouts' = IF written THEN sortByDate(upserted(workouts, workout)) ELSE workouts
    /\ frame' = [pc |-> "returned", call |-> "upsertWorkout", date |-> workout.date,
                 workout |-> <<workout>>, written |-> written]
    /\ UNCHANGED <<EXERCISES, plan, generated, trace, stored, arrays, selectedEquip,
                   metaEquipment, loader>>

\* Storage.deleteWorkoutByDate(date)
deleteWorkoutByDate(date, written) ==
    /\ workouts' = IF written THEN SelectSeq(workouts, LAMBDA w : w.date # date)
                   ELSE workouts
    /\ frame' = [pc |-> "returned", call |-> "deleteWorkoutByDate", date |-> date,
                 workout |-> <<>>, written |-> written]
    /\ UNCHANGED <<EXERCISES, plan, generated, trace, stored, arrays, selectedEquip,
                   metaEquipment, loader>>

NextStore ==
    \/ \E workout \in Workouts, written \in BOOLEAN : upsertWorkout(workout, written)
    \/ \E workout \in Workouts, written \in BOOLEAN : upsertWorkoutSorted(workout, written)
    \/ \E i \in 1..Len(Dates), written \in BOOLEAN : deleteWorkoutByDate(Dates[i], written)

SpecStore == InitStore /\ [][NextStore]_vars

----------------------------------------------------------------------------
(* The Generate click with its arrays as objects: state.selectedEquip, the  *)
(* handler's copy of it and the equipment array of the returned plan are    *)
(* addresses into arrays, so that a copy and an alias differ.               *)

MetaDays == {0 - 1, 2, 5, 7}

InitMeta ==
    /\ EXERCISES = EditCatalog
    /\ plan = DefaultPlan
    /\ generated = "no"
    /\ trace = NoTrace
    /\ frame = Idle
    /\ stored = DefaultPlan
    /\ ElsewhereInit

\* uniqueEquipment(): the equipment names the chips are made for.
uniqueEquipment == {EXERCISES[i].equipment : i \in 1..Len(EXERCISES)}

\* arr.indexOf(x), 0-based, -1 when absent.
indexOf(arr, x) ==
    IF \E i \in 1..Len(arr) : arr[i] = x
    THEN (CHOOSE i \in 1..Len(arr) : arr[i] = x /\ \A j \in 1..(i - 1) : arr[j] # x) - 1
    ELSE 0 - 1

\* The click on an equipment chip: state.selectedEquip is changed in place,
\* and with it whatever else holds the same array.
ToggleChip(eq) ==
    /\ frame = Idle
    /\ LET sel == arrays[selectedEquip]
           i == indexOf(sel, eq)
       IN  arrays' = [arrays EXCEPT ![selectedEquip] =
                         IF i >= 0 THEN spliceOut(sel, i) ELSE Append(sel, eq)]
    /\ plan' = [plan EXCEPT !.meta.equipment = arrays'[metaEquipment]]
    /\ UNCHANGED <<EXERCISES, generated, trace, frame, stored, selectedEquip, metaEquipment, loader, workouts>>

\* The click handler of #btnGeneratePlan up to the call; the local equipment
\* is state.selectedEquip.slice(), a new array.
ClickReads(goal, dpw) ==
    /\ frame = Idle
    /\ generated = "no"
    /\ arrays' = Append(arrays, arrays[selectedEquip])
    /\ frame' = [pc |-> "read", goal |-> goal, dpw |-> dpw, equipment |-> Len(arrays) + 1]
    /\ UNCHANGED <<EXERCISES, plan, generated, trace, stored, selectedEquip, metaEquipment, loader, workouts>>

\* The call whose plan holds the caller's array itself.
ClickCalls_aliasesEquipment ==
    /\ frame.pc = "read"
    /\ \E run \in {generatePlanRun(EXERCISES, frame.goal, frame.dpw, arrays[frame.equipment])} :
        /\ frame' = [pc |-> "called", goal |-> frame.goal, dpw |-> frame.dpw,
                     equipment |-> frame.equipment, generated |-> run.plan,
                     metaEquipment |-> frame.equipment]
        /\ trace' = run.trace
    /\ UNCHANGED <<EXERCISES, plan, generated, stored, elsewhere>>

\* const generated = generatePlan({ goal, daysPerWeek: dpw, equipment }); the
\* plan's meta.equipment is equipment.slice(), a new array.
ClickCalls ==
    /\ frame.pc = "read"
    /\ \E run \in {generatePlanRun(EXERCISES, frame.goal, frame.dpw, arrays[frame.equipment])} :
        /\ arrays' = Append(arrays, run.plan.meta.equipment)
        /\ frame' = [pc |-> "called", goal |-> frame.goal, dpw |-> frame.dpw,
                     equipment |-> frame.equipment, generated |-> run.plan,
                     metaEquipment |-> Len(arrays) + 1]
        /\ trace' = run.trace
    /\ UNCHANGED <<EXERCISES, plan, generated, stored, selectedEquip, metaEquipment, loader, workouts>>

\* state.plan = generated, and the handler returns.
ClickAssigns ==
    /\ frame.pc = "called"
    /\ plan' = frame.generated
    /\ metaEquipment' = frame.metaEquipment
    /\ frame' = Idle
    /\ generated' = "once"
    /\ UNCHANGED <<EXERCISES, trace, stored, arrays, selectedEquip, loader, workouts>>

NextMeta ==
    \/ \E eq \in uniqueEquipment : ToggleChip(eq)
    \/ \E goal \in WideGoals, dpw \in MetaDays : ClickReads(goal, dpw)
    \/ ClickCalls
    \/ ClickAssigns

SpecMeta == InitMeta /\ [][NextMeta]_vars

----------------------------------------------------------------------------
(* Generation from the built-in catalog *)

BuiltinEquip ==
    {<<>>, <<"Barbell">>, <<"Dumbbell">>, <<"Bodyweight">>, <<"Barbell", "Dumbbell">>,
     <<"Rings">>}

InitBuiltin ==
    /\ EXERCISES = normalize(FALLBACK)
    /\ plan = DefaultPlan
    /\ generated = "no"
    /\ trace = NoTrace
    /\ frame = Idle
    /\ stored = DefaultPlan
    /\ ElsewhereInit

NextBuiltin ==
    \E goal \in Goals, dpw \in (0 - NegDays)..MaxDays, equipment \in BuiltinEquip :
        Generate(goal, dpw, equipment)

SpecBuiltin == InitBuiltin /\ [][NextBuiltin]_vars

----------------------------------------------------------------------------
(* exercises.js: loadExercises.  The application awaits each call before    *)
(* it makes the next (app.js init), so a call starts when none is pending.  *)
(* A call is two steps: up to the await of fetchJson, and from the settled  *)
(* fetch to the return.  What the fetch settles with is a record: ok is     *)
(* FALSE when fetchJson threw (network error, HTTP status, invalid JSON),   *)
(* array tells whether the JSON value is an array, items are its entries.   *)

\* A null entry of a JSON array; normalize throws on it (it.id of null).
NullEntry == [null |-> TRUE]

LoadCatalogs == {c \in WideCatalogs : Len(c) = 1}

FetchResults ==
    {[ok |-> FALSE, array |-> FALSE, items |-> <<>>],
     [ok |-> TRUE, array |-> FALSE, items |-> <<>>],
     [ok |-> TRUE, array |-> TRUE, items |-> <<>>],
     [ok |-> TRUE, array |-> TRUE, items |-> <<NullEntry>>]}
    \cup {[ok |-> TRUE, array |-> TRUE, items |-> c] : c \in LoadCatalogs}

\* Before the first load: no catalog; the cache is empty or holds a catalog
\* saved by an earlier session.
InitLoad ==
    /\ EXERCISES = <<>>
    /\ LOADED = FALSE
    /\ cache \in {[items |-> <<>>]} \cup {[items |-> c] : c \in LoadCatalogs}
    /\ loads = <<>>
    /\ fetches = 0
    /\ plan = DefaultPlan
    /\ generated = "no"
    /\ trace = NoTrace
    /\ frame = Idle
    /\ stored = DefaultPlan
    /\ arrays = << <<>>, <<>> >>
    /\ selectedEquip = 1
    /\ metaEquipment = 2
    /\ workouts = <<>>

\* The call that fetches also when the catalog is loaded.
LoadCall_alwaysFetches ==
    /\ Len(loads) < MaxLoads
    /\ \A c \in 1..Len(loads) : loads[c].pc = "resolved"
    /\ loads' = Append(loads, [pc |-> "fetching"])
    /\ fetches' = fetches + 1
    /\ UNCHANGED <<EXERCISES, plan, generated, trace, frame, stored, arrays,
                   selectedEquip, metaEquipment, LOADED, cache, workouts>>

\* loadExercises() up to its first await: it returns EXERCISES when LOADED,
\* and fetches exercises.json otherwise.
LoadCall ==
    /\ Len(loads) < MaxLoads
    /\ \A c \in 1..Len(loads) : loads[c].pc = "resolved"
    /\ IF LOADED
       THEN /\ loads' = Append(loads, [pc |-> "resolved", fetched |-> FALSE, value |-> EXERCISES])
            /\ fetches' = fetches
       ELSE /\ loads' = Append(loads, [pc |-> "fetching"])
            /\ fetches' = fetches + 1
    /\ UNCHANGED <<EXERCISES, plan, generated, trace, frame, stored, arrays,
                   selectedEquip, metaEquipment, LOADED, cache, workouts>>

\* normalize(items) throws
normalizeThrows(items) == \E i \in 1..Len(items) : items[i] = NullEntry

\* loadExercises() from the settled fetch on.  data is what fetchJson
\* settled with; written tells whether localStorage took the write of
\* Storage.saveExercisesCache (write() swallows a failure).
FetchSettles(c, data, written) ==
    /\ c \in 1..Len(loads)
    /\ loads[c].pc = "fetching"
    /\ IF data.ok /\ data.array /\ Len(data.items) > 0 /\ ~normalizeThrows(data.items)
       THEN /\ EXERCISES' = normalize(data.items)
            /\ cache' = IF written THEN [items |-> EXERCISES'] ELSE cache
       ELSE /\ EXERCISES' = IF Len(cache.items) > 0 THEN normalize(cache.items)
                                                   ELSE normalize(FALLBACK)
            /\ cache' = cache
    /\ LOADED' = TRUE
    /\ loads' = [loads EXCEPT ![c] = [pc |-> "resolved", fetched |-> TRUE, data |-> data,
                                      value |-> EXERCISES']]
    /\ UNCHANGED <<plan, generated, trace, frame, stored, arrays, selectedEquip,
                   metaEquipment, fetches, workouts>>

NextLoad ==
    \/ LoadCall
    \/ \E c \in 1..MaxLoads, data \in FetchResults, written \in BOOLEAN :
            FetchSettles(c, data, written)

SpecLoad == InitLoad /\ [][NextLoad]_vars

----------------------------------------------------------------------------
(* Generation for equipment that few or no exercises of the catalog have *)

\* Dumbbell exercises with and without a pattern, and one Barbell exercise.
ScarceUniverse ==
    {[id |-> "e1", name |-> <<"B">>, primaryMuscle |-> "Muscle",
      equipment |-> "Dumbbell", pattern |-> "Accessory"],
     [id |-> "e2", name |-> <<"a">>, primaryMuscle |-> "Muscle",
      equipment |-> "Dumbbell", pattern |-> ""],
     [id |-> "e3", name |-> <<"a", "B">>, primaryMuscle |-> "Muscle",
      equipment |-> "Dumbbell", pattern |-> "Squat"],
     [id |-> "e4", name |-> <<"B", "a">>, primaryMuscle |-> "Muscle",
      equipment |-> "Barbell", pattern |-> "Squat"],
     [id |-> "e5", name |-> <<"B">>, primaryMuscle |-> "Muscle",
      equipment |-> "Dumbbell", pattern |-> ""]}

ScarceCatalogs == UNION {[1..n -> ScarceUniverse] : n \in 0..MaxCatalog}
ScarceEquip == {<<>>, <<"Barbell">>, <<"Dumbbell">>, <<"Barbell", "Kettlebell">>}

InitScarce ==
    /\ EXERCISES \in ScarceCatalogs
    /\ plan = DefaultPlan
    /\ generated = "no"
    /\ trace = NoTrace
    /\ frame = Idle
    /\ stored = DefaultPlan
    /\ ElsewhereInit

NextScarce ==
    \E goal \in Goals, dpw \in {3, 4}, equipment \in ScarceEquip :
        Generate(goal, dpw, equipment)

SpecScarce == InitScarce /\ [][NextScarce]_vars

----------------------------------------------------------------------------
(* What the specification says, stated independently of the code above *)

Generated == generated # "no"

\* The inputs of the last generatePlan call, as the plan's meta records them.
nInput == plan.meta.daysPerWeek
goalInput == plan.meta.goal
equipmentInput == SetOf(plan.meta.equipment)

\* Section 4.1, step 1: the split family of a day count.
specSplit(n) ==
    CASE n = 3 -> "full" [] n = 4 -> "ul" [] n \in {5, 6} -> "ppl" [] OTHER -> "full"

\* Section 4.1, step 2: the number of day templates of a family.
specTemplateCount(family) ==
    CASE family = "full" -> 3 [] family = "ul" -> 4 [] family = "ppl" -> 6

\* Section 4.1, step 5: the day names of a family, in order.
specDayNames(family) ==
    CASE family = "full" -> <<"Full Body A", "Full Body B", "Full Body C">>
      [] family = "ul" -> <<"Upper A", "Lower A", "Upper B", "Lower B">>
      [] family = "ppl" -> <<"Push A", "Pull A", "Legs A", "Push B", "Pull B", "Legs B">>

\* Section 3: the movement patterns; all but Accessory are compound.
specPatterns ==
    {"Squat", "Hinge", "Horizontal Push", "Vertical Push",
     "Horizontal Pull", "Vertical Pull", "Accessory"}

\* Section 4.1, step 4: the default prescription of a pattern under a goal.
specPrescription(goal, pattern) ==
    IF goal = "strength"
    THEN IF pattern = "Accessory" THEN [targetSets |-> 3, repRange |-> <<6, 8>>]
                                  ELSE [targetSets |-> 5, repRange |-> <<3, 5>>]
    ELSE IF pattern = "Accessory" THEN [targetSets |-> 3, repRange |-> <<12, 15>>]
                                  ELSE [targetSets |-> 3, repRange |-> <<8, 12>>]

\* The number of days of a plan for day count n: for n >= 0 the first n
\* templates of the family, as far as there are any; a negative n drops the
\* last -n templates of the full-body family.
daysExpected(n) ==
    IF n >= 0 THEN Min(n, specTemplateCount(specSplit(n)))
    ELSE Max(0, specTemplateCount(specSplit(n)) + n)

\* The log entries of the last call: <<day, position in the template>>.
LogEntries ==
    UNION {{<<d, k>> : k \in 1..Len(trace.days[d].log)} : d \in 1..Len(trace.days)}

entryAt(dk) == trace.days[dk[1]].log[dk[2]]

\* The indices of the exercises of arr that count for pattern pat (an
\* exercise without a pattern counts as Accessory).
filedUnder(arr, pat) ==
    {i \in 1..Len(arr) : (IF arr[i].pattern = "" THEN "Accessory" ELSE arr[i].pattern) = pat}

\* The indices of the exercises of arr whose pattern is pat.
withPattern(arr, pat) == {i \in 1..Len(arr) : arr[i].pattern = pat}

\* arr[i] comes before arr[j] when arr is ordered by name with localeCompare,
\* exercises of equal name staying in the order of arr.
sortsBefore(arr, i, j) ==
    LET c == localeCompare(arr[i].name, arr[j].name)
    IN  c < 0 \/ (c = 0 /\ i < j)

\* The first, in that order, of the exercises of arr with index in S.
firstByName(arr, S) == CHOOSE i \in S : \A j \in S \ {i} : sortsBefore(arr, i, j)

\* The prefer-unused rule on the exercises of arr with index in S (not empty).
preferUnused(arr, S, used) ==
    LET U == {i \in S : arr[i].id \notin used}
    IN  IF U # {} THEN <<arr[firstByName(arr, U)]>> ELSE <<arr[firstByName(arr, S)]>>

\* The ids picked in day d before position k of its template.
usedBefore(d, k) ==
    {trace.days[d].log[j].pick[1].id :
        j \in {j \in 1..(k - 1) : trace.days[d].log[j].pick # <<>>}}

\* The pattern an exercise counts for: Accessory when it has none.
countsFor(ex) == IF ex.pattern = "" THEN "Accessory" ELSE ex.pattern

\* The template's pattern sequence of day d, and the entries of the day's log
\* whose pattern yielded an exercise.
templatePatterns(d) ==
    SubSeq([k \in 1..Len(trace.days[d].log) |-> trace.days[d].log[k].pat],
           1, Len(trace.days[d].log))
yielding(d) == SelectSeq(trace.days[d].log, LAMBDA en : en.pick # <<>>)

RECURSIVE IsSubsequenceFrom(_, _, _, _)
\* s from index i on is a subsequence of t from index j on.
IsSubsequenceFrom(s, t, i, j) ==
    IF i > Len(s) THEN TRUE
    ELSE IF j > Len(t) THEN FALSE
    ELSE IF s[i] = t[j] THEN IsSubsequenceFrom(s, t, i + 1, j + 1)
    ELSE IsSubsequenceFrom(s, t, i, j + 1)

IsSubsequence(s, t) == IsSubsequenceFrom(s, t, 1, 1)

\* The names of the plan's days, in order.
dayNames == SubSeq([d \in 1..Len(plan.days) |-> plan.days[d].name], 1, Len(plan.days))

\* The first three elements of an array, all of them when it is shorter.
firstThree(arr) == IF Len(arr) <= 3 THEN arr ELSE SubSeq(arr, 1, 3)

RECURSIVE eachOnce(_)
\* The elements of a sequence in order of first occurrence, each once.
eachOnce(seq) ==
    IF seq = <<>> THEN <<>>
    ELSE LET init == eachOnce(SubSeq(seq, 1, Len(seq) - 1))
             last == seq[Len(seq)]
         IN  IF \E i \in 1..Len(init) : init[i] = last THEN init ELSE Append(init, last)

\* The exerciseId values of day d of the plan, and the ids of an array of
\* exercises, in order.
idsOfDay(d) ==
    SubSeq([k \in 1..Len(plan.days[d].exercises) |-> plan.days[d].exercises[k].exerciseId],
           1, Len(plan.days[d].exercises))
idsOf(arr) == SubSeq([k \in 1..Len(arr) |-> arr[k].id], 1, Len(arr))

\* The catalog exercise an id refers to: the first with that id.
referredTo(id) ==
    EXERCISES[CHOOSE i \in 1..Len(EXERCISES) :
                 /\ EXERCISES[i].id = id
                 /\ \A j \in 1..(i - 1) : EXERCISES[j].id # id]

\* The prescribed exercises of the plan: <<day, position>>.
Prescribed ==
    UNION {{<<d, k>> : k \in 1..Len(plan.days[d].exercises)} : d \in 1..Len(plan.days)}

prescribedAt(dk) == plan.days[dk[1]].exercises[dk[2]]

UniqueIds(cat) == \A i, j \in 1..Len(cat) : i # j => cat[i].id # cat[j].id

----------------------------------------------------------------------------
(* Claims *)

\* C1 (as stated): for every integer daysPerWeek n, negative values
\* included, the plan has at most n days, and exactly
\* min(n, number of templates of the family chosen for n).
C1_DayCountBound ==
    Generated =>
        /\ Len(plan.days) <= nInput
        /\ Len(plan.days) = Min(nInput, specTemplateCount(specSplit(nInput)))

\* C1 (amended): for every daysPerWeek n >= 0 the plan has at most n days and
\* exactly min(n, number of templates of the family chosen for n); for n < 0
\* it has max(0, 3 + n) days, the full-body templates without the last -n.
C1_DayCountBoundAmended ==
    Generated =>
        /\ Len(plan.days) = daysExpected(nInput)
        /\ nInput >= 0 => Len(plan.days) <= nInput

\* C1 witness: more days asked for than the family has templates.
C1_Witness ==
    Generated /\ nInput > 6 /\ Len(plan.days) = 3

\* C2: in every generated plan, for every catalog (repeated ids included),
\* the exerciseId values within each day are pairwise distinct.
C2_NoInDayDuplicates ==
    Generated =>
        \A d \in 1..Len(plan.days) :
            \A j, k \in 1..Len(plan.days[d].exercises) :
                j # k => plan.days[d].exercises[j].exerciseId # plan.days[d].exercises[k].exerciseId

\* C2 witness: a day for which the selector chose the same id twice.
C2_Witness ==
    Generated /\ \E d \in 1..Len(plan.days) :
        /\ \E j, k \in 1..Len(trace.days[d].chosen) :
              j # k /\ trace.days[d].chosen[j].id = trace.days[d].chosen[k].id
        /\ Len(plan.days[d].exercises) < Len(trace.days[d].chosen)

\* C3: with a non-empty equipment set, a pattern for which the catalog holds
\* an exercise with equipment in the set gets an exercise with equipment in
\* the set; an exercise outside the set is picked only for a pattern that no
\* catalog exercise matches within the set.
C3_EquipmentRespected ==
    (Generated /\ equipmentInput # {}) =>
        \A dk \in LogEntries :
            LET en == entryAt(dk)
                matching == {i \in withPattern(EXERCISES, en.pat) :
                                EXERCISES[i].equipment \in equipmentInput}
            IN  /\ matching # {} =>
                      /\ en.pick # <<>>
                      /\ en.pick[1].equipment \in equipmentInput
                /\ (en.pick # <<>> /\ en.pick[1].equipment \notin equipmentInput) =>
                      matching = {}

\* C3 witness: the pick is within the set although a catalog exercise of the
\* pattern outside the set comes before it by name.
C3_Witness ==
    Generated /\ equipmentInput # {} /\ \E dk \in LogEntries :
        LET en == entryAt(dk)
        IN  /\ en.pick # <<>>
            /\ en.pick[1].equipment \in equipmentInput
            /\ \E i \in withPattern(EXERCISES, en.pat) :
                  /\ EXERCISES[i].equipment \notin equipmentInput
                  /\ EXERCISES[i].id \notin en.used
                  /\ localeCompare(EXERCISES[i].name, en.pick[1].name) < 0

\* C4 (as stated): the pick for a pattern is, among the equipment-available
\* exercises of that pattern not yet used in the day (among all of them when
\* all are used), one whose name is first in case-sensitive lexicographic
\* order.
C4_PickFirstUnusedCaseSensitive ==
    Generated =>
        \A dk \in LogEntries :
            LET en == entryAt(dk)
                S == filedUnder(trace.avail, en.pat)
                U == {i \in S : trace.avail[i].id \notin en.used}
                cand == IF U # {} THEN U ELSE S
            IN  S # {} =>
                  /\ en.used = usedBefore(dk[1], dk[2])
                  /\ \E i \in cand :
                        /\ en.pick = <<trace.avail[i]>>
                        /\ \A j \in cand :
                              codeUnitCompare(trace.avail[i].name, trace.avail[j].name) <= 0

\* C4 (amended): for each template pattern, in template order, the pick is,
\* among the equipment-available exercises filed under that pattern (an
\* exercise with an empty pattern is filed under Accessory) and ordered by
\* name with localeCompare (equal names in catalog order), the first whose
\* id was not chosen earlier in the same day, and the first of all when
\* every one is used.
C4_PickFirstUnused ==
    Generated =>
        \A dk \in LogEntries :
            LET en == entryAt(dk)
                S == filedUnder(trace.avail, en.pat)
            IN  S # {} =>
                  /\ en.used = usedBefore(dk[1], dk[2])
                  /\ en.pick = preferUnused(trace.avail, S, en.used)

\* C4 witness: the first exercise of the pool by name was used earlier in
\* the day and the pick is a later, unused one.
C4_Witness ==
    Generated /\ \E dk \in LogEntries :
        LET en == entryAt(dk)
            S == filedUnder(trace.avail, en.pat)
        IN  /\ S # {}
            /\ trace.avail[firstByName(trace.avail, S)].id \in en.used
            /\ en.pick # <<>>
            /\ en.pick[1].id \notin en.used

\* C5: when no equipment-available exercise is filed under a pattern but the
\* catalog has exercises with that pattern, the pick is the first of these,
\* in name order, that is not used in the day (the first of all when every
\* one is used), whatever its equipment.
C5_FallbackToCatalog ==
    Generated =>
        \A dk \in LogEntries :
            LET en == entryAt(dk)
                F == withPattern(EXERCISES, en.pat)
            IN  (filedUnder(trace.avail, en.pat) = {} /\ F # {}) =>
                    en.pick = preferUnused(EXERCISES, F, en.used)

\* C5 witness: the fallback picks, out of two catalog exercises outside the
\* equipment set, the one that is later in the catalog and first by name.
C5_Witness ==
    Generated /\ \E dk \in LogEntries :
        LET en == entryAt(dk)
            F == withPattern(EXERCISES, en.pat)
        IN  /\ filedUnder(trace.avail, en.pat) = {}
            /\ en.used = {}
            /\ \E i \in F : en.pick = <<EXERCISES[i]>> /\ \E j \in F : j < i
            /\ en.pick[1].equipment \notin equipmentInput

\* C6: with an empty equipment set the availability filter returns the whole
\* catalog and every pattern is picked from all catalog exercises of that
\* pattern; with a non-empty set the filter returns exactly the catalog
\* exercises whose equipment is in the set, in catalog order.
C6_EmptyEquipmentUnrestricted ==
    Generated =>
        LET K == {i \in 1..Len(EXERCISES) :
                     equipmentInput = {} \/ EXERCISES[i].equipment \in equipmentInput}
        IN  /\ equipmentInput = {} => trace.avail = EXERCISES
            /\ Len(trace.avail) = Cardinality(K)
            /\ \A i \in K :
                  trace.avail[Cardinality({j \in K : j <= i})] = EXERCISES[i]
            /\ equipmentInput = {} =>
                  \A dk \in LogEntries :
                      LET en == entryAt(dk)
                      IN  withPattern(EXERCISES, en.pat) # {} =>
                            en.pick = preferUnused(EXERCISES, filedUnder(EXERCISES, en.pat), en.used)

\* C6 witness: no equipment given, a catalog with both kinds of equipment,
\* and picks of both kinds.
C6_Witness ==
    /\ Generated /\ equipmentInput = {} /\ trace.avail = EXERCISES
    /\ \E dk1, dk2 \in LogEntries :
          /\ entryAt(dk1).pick # <<>> /\ entryAt(dk2).pick # <<>>
          /\ entryAt(dk1).pick[1].equipment # entryAt(dk2).pick[1].equipment

C8_SplitSelection ==
    Generated =>
        /\ trace.split = specSplit(nInput)
        /\ Len(plan.days) > 0 => plan.days[1].name = specDayNames(specSplit(nInput))[1]

\* C8 witness: five days a week give push/pull/legs.
C8_Witness ==
    Generated /\ nInput = 5 /\ trace.split = "ppl" /\ plan.days[1].name = "Push A"

\* C9: every prescribed exercise of a generated plan carries the default
\* prescription of the plan's goal and of the pattern of the catalog exercise
\* its id refers to, when that pattern is one of the seven movement
\* patterns; in a catalog with unique ids that exercise is the one the
\* selector chose.  strength: compound 5 x [3,5], Accessory 3 x [6,8];
\* hypertrophy: compound 3 x [8,12], Accessory 3 x [12,15].
C9_DefaultPrescription ==
    Generated =>
        \A d \in 1..Len(plan.days) : \A k \in 1..Len(plan.days[d].exercises) :
            LET pex == plan.days[d].exercises[k]
                refs == {i \in 1..Len(EXERCISES) : EXERCISES[i].id = pex.exerciseId}
                first == CHOOSE i \in refs : \A j \in refs : i <= j
                p == specPrescription(goalInput, EXERCISES[first].pattern)
            IN  /\ refs # {}
                /\ EXERCISES[first].pattern \in specPatterns =>
                      /\ pex.targetSets = p.targetSets
                      /\ pex.repRange = p.repRange
                /\ UniqueIds(EXERCISES) =>
                      /\ Len(trace.days[d].chosen) = Len(plan.days[d].exercises)
                      /\ trace.days[d].chosen[k] = EXERCISES[first]

\* C9 witness: a strength day with a compound exercise at 5 x [3,5] and an
\* Accessory exercise at 3 x [6,8], the catalog's ids being unique.
C9_Witness ==
    /\ Generated /\ goalInput = "strength" /\ UniqueIds(EXERCISES)
    /\ \E d \in 1..Len(plan.days) : \E j, k \in 1..Len(plan.days[d].exercises) :
          /\ plan.days[d].exercises[j].repRange = <<3, 5>>
          /\ plan.days[d].exercises[j].targetSets = 5
          /\ plan.days[d].exercises[k].repRange = <<6, 8>>
          /\ plan.days[d].exercises[k].targetSets = 3

\* C10: generatePlan returns a Plan for every goal, day count, equipment set
\* and catalog: a plan named "My Plan" with the days of its split, each day
\* an array of prescribed exercises; with an empty catalog every day has
\* zero exercises and the plan still has the days of its split.
C10_NeverFails ==
    Generated =>
        /\ plan.name = "My Plan"
        /\ Len(plan.days) = daysExpected(nInput)
        /\ \A d \in 1..Len(plan.days) :
              /\ plan.days[d].name = specDayNames(specSplit(nInput))[d]
              /\ \A k \in 1..Len(plan.days[d].exercises) :
                    /\ plan.days[d].exercises[k].exerciseId \in {EXERCISES[i].id : i \in 1..Len(EXERCISES)}
                    /\ plan.days[d].exercises[k].targetSets >= 1
              /\ Len(EXERCISES) = 0 => plan.days[d].exercises = <<>>

\* C10 witness: the six days of push/pull/legs, all empty, from the empty
\* catalog.
C10_Witness ==
    /\ Generated /\ Len(EXERCISES) = 0 /\ Len(plan.days) = 6
    /\ \A d \in 1..6 : plan.days[d].exercises = <<>>

\* C11: every exerciseId of a generated plan is the id of an exercise of the
\* catalog the plan was generated from, whether the exercise was picked from
\* the equipment pool, from the whole catalog, or by the day-level fallback.
C11_IdsFromCatalog ==
    Generated =>
        \A d \in 1..Len(plan.days) : \A k \in 1..Len(plan.days[d].exercises) :
            \E i \in 1..Len(EXERCISES) :
                EXERCISES[i].id = plan.days[d].exercises[k].exerciseId

\* C11 witness: a plan holding an id whose exercise is outside the equipment
\* set, so that it came in through the whole catalog.
C11_Witness ==
    Generated /\ equipmentInput # {} /\ \E d \in 1..Len(plan.days) :
        \E k \in 1..Len(plan.days[d].exercises) :
            \A i \in 1..Len(EXERCISES) :
                EXERCISES[i].id = plan.days[d].exercises[k].exerciseId =>
                    EXERCISES[i].equipment \notin equipmentInput

\* C12 (as stated): in every day the selector returns at most one exercise
\* per template pattern, the patterns of the returned exercises form a
\* subsequence of the template's pattern sequence, and a pattern for which
\* the catalog has no exercise contributes nothing, the day then having
\* fewer exercises than the template has patterns.
C12_OnePerPatternInOrder ==
    Generated =>
        \A d \in 1..Len(trace.days) :
            LET chosen == trace.days[d].chosen
                pats == templatePatterns(d)
                chosenPats == SubSeq([k \in 1..Len(chosen) |-> chosen[k].pattern], 1, Len(chosen))
                missing == {k \in 1..Len(pats) : withPattern(EXERCISES, pats[k]) = {}}
            IN  /\ Len(chosen) <= Len(pats)
                /\ IsSubsequence(chosenPats, pats)
                /\ \A k \in missing : trace.days[d].log[k].pick = <<>>
                /\ missing # {} => Len(chosen) < Len(pats)

\* C12 (amended): a pattern yields nothing exactly when no catalog exercise
\* has it and no available exercise counts for it (an exercise without a
\* pattern counts for Accessory); when at least one pattern of the template
\* yields an exercise, the selector returns the exercises of the yielding
\* patterns, one each, in template order, each counting for its pattern, so
\* that their patterns form a subsequence of the template's and the day has
\* as many exercises fewer than patterns as there are patterns that yield
\* nothing.  (When no pattern yields, the day-level fallback applies.)
C12_OnePerPatternUnlessFallback ==
    Generated =>
        \A d \in 1..Len(trace.days) :
            LET chosen == trace.days[d].chosen
                log == trace.days[d].log
                pats == templatePatterns(d)
                got == yielding(d)
                chosenFor == SubSeq([k \in 1..Len(chosen) |-> countsFor(chosen[k])], 1, Len(chosen))
            IN  /\ \A k \in 1..Len(log) :
                      log[k].pick = <<>> <=>
                          /\ withPattern(EXERCISES, pats[k]) = {}
                          /\ filedUnder(trace.avail, pats[k]) = {}
                /\ got # <<>> =>
                      /\ Len(chosen) = Len(got)
                      /\ \A k \in 1..Len(got) :
                            /\ chosen[k] = got[k].pick[1]
                            /\ countsFor(chosen[k]) = got[k].pat
                      /\ IsSubsequence(chosenFor, pats)
                      /\ Len(pats) - Len(chosen) =
                            Cardinality({k \in 1..Len(log) : log[k].pick = <<>>})

\* C12 witness: a day with two exercises of different patterns, in template
\* order, whose template has patterns that yield nothing.
C12_Witness ==
    Generated /\ \E d \in 1..Len(trace.days) :
        /\ Len(trace.days[d].chosen) = 2
        /\ trace.days[d].chosen[1].pattern # trace.days[d].chosen[2].pattern
        /\ Len(yielding(d)) = 2
        /\ Len(trace.days[d].log) > 2

\* C17: day i of a generated plan carries the name of the i-th template of
\* its split family: Full Body A, B, C for 3 days a week; Upper A, Lower A,
\* Upper B, Lower B for 4; the first 5 or 6 of Push A, Pull A, Legs A,
\* Push B, Pull B, Legs B for 5 and 6; the first days of the full-body family
\* for any other day count.  Every template has a name, so no day carries a
\* positional fallback name ("Full Body 4", "Day 5").
C17_DayNames ==
    Generated =>
        /\ nInput = 3 => dayNames = <<"Full Body A", "Full Body B", "Full Body C">>
        /\ nInput = 4 => dayNames = <<"Upper A", "Lower A", "Upper B", "Lower B">>
        /\ nInput = 5 => dayNames = <<"Push A", "Pull A", "Legs A", "Push B", "Pull B">>
        /\ nInput = 6 => dayNames = <<"Push A", "Pull A", "Legs A", "Push B", "Pull B", "Legs B">>
        /\ nInput \notin {3, 4, 5, 6} =>
              \E m \in 0..3 : dayNames = SubSeq(<<"Full Body A", "Full Body B", "Full Body C">>, 1, m)

\* C17 witness: a full-body plan cut to its first two days.
C17_Witness ==
    Generated /\ nInput = 2 /\ dayNames = <<"Full Body A", "Full Body B">>

\* C13 (as stated): the selector falls back to the first three exercises of
\* the catalog, in catalog order (all of them when the catalog has fewer),
\* whatever their pattern and equipment, exactly when no pattern of the
\* day's template yielded an exercise, which is exactly when the catalog has
\* no exercise with a pattern of the template; when a pattern yielded, the
\* selector returns the picks and nothing else.
C13_FallbackIffNoPatternInCatalog ==
    Generated =>
        \A d \in 1..Len(trace.days) :
            LET chosen == trace.days[d].chosen
                got == yielding(d)
                pats == templatePatterns(d)
                noneInCatalog == \A k \in 1..Len(pats) : withPattern(EXERCISES, pats[k]) = {}
            IN  /\ got = <<>> => chosen = firstThree(EXERCISES)
                /\ got # <<>> =>
                      /\ Len(chosen) = Len(got)
                      /\ \A k \in 1..Len(got) : chosen[k] = got[k].pick[1]
                /\ got = <<>> <=> noneInCatalog

\* C13 (amended): the selector falls back to the first three exercises of
\* the catalog, in catalog order (all of them when the catalog has fewer),
\* whatever their pattern and equipment, exactly when no pattern of the
\* day's template yielded an exercise; the day then lists their ids, each
\* once.  When a pattern yielded, the selector returns the picks and nothing
\* else.  No pattern yields only if the catalog has no exercise with a
\* pattern of the template, and, every catalog exercise having a pattern,
\* whenever it has none.
C13_DayLevelFallback ==
    Generated =>
        \A d \in 1..Len(trace.days) :
            LET chosen == trace.days[d].chosen
                got == yielding(d)
                pats == templatePatterns(d)
                noneInCatalog == \A k \in 1..Len(pats) : withPattern(EXERCISES, pats[k]) = {}
            IN  /\ got = <<>> =>
                      /\ chosen = firstThree(EXERCISES)
                      /\ idsOfDay(d) = eachOnce(idsOf(firstThree(EXERCISES)))
                /\ got # <<>> =>
                      /\ Len(chosen) = Len(got)
                      /\ \A k \in 1..Len(got) : chosen[k] = got[k].pick[1]
                /\ got = <<>> => noneInCatalog
                /\ (noneInCatalog /\ \A i \in 1..Len(EXERCISES) : EXERCISES[i].pattern # "") =>
                      got = <<>>

\* C13 witness: a catalog of four exercises, a day none of whose patterns
\* yields, and the first three exercises, of three ids, returned for it, one
\* of them outside the equipment set.
C13_Witness ==
    /\ Generated /\ Len(EXERCISES) = 4 /\ equipmentInput # {}
    /\ \E d \in 1..Len(trace.days) :
          /\ yielding(d) = <<>>
          /\ Len(plan.days[d].exercises) = 3
          /\ \E k \in 1..3 : trace.days[d].chosen[k].equipment \notin equipmentInput

\* C14: the goal does not affect exercise selection: generating again for
\* another goal, with the same catalog, daysPerWeek and equipment, gives a
\* plan with the same day names and the same exerciseId sequence in every
\* day, made by the same picks; of the plan's meta only the goal differs.
C14_GoalIndependentSelection ==
    [][(generated = "once" /\ generated' = "switched") =>
          /\ plan'.meta.goal # plan.meta.goal
          /\ plan'.meta = [plan.meta EXCEPT !.goal = plan'.meta.goal]
          /\ plan'.name = plan.name
          /\ dayNames' = dayNames
          /\ \A d \in 1..Len(plan.days) : idsOfDay(d)' = idsOfDay(d)
          /\ trace' = trace]_vars

\* C14 witness: a plan regenerated for strength after another goal, with a
\* day of a compound and a non-compound exercise.
C14_Witness ==
    /\ generated = "switched" /\ plan.meta.goal = "strength"
    /\ \E d \in 1..Len(plan.days) : \E j, k \in 1..Len(plan.days[d].exercises) :
          /\ plan.days[d].exercises[j].repRange = <<3, 5>>
          /\ plan.days[d].exercises[k].repRange = <<6, 8>>

\* C16: every prescribed exercise of a generated plan has targetSets >= 1
\* and a rep range of two bounds, both >= 1, the low one not above the high
\* one, whatever the goal, a goal other than strength and hypertrophy
\* included.
C16_PrescriptionValid ==
    Generated =>
        \A dk \in Prescribed :
            LET pex == prescribedAt(dk)
            IN  /\ pex.targetSets >= 1
                /\ Len(pex.repRange) = 2
                /\ pex.repRange[1] >= 1 /\ pex.repRange[2] >= 1
                /\ pex.repRange[1] <= pex.repRange[2]

\* C16 witness: a plan for a goal that is neither strength nor hypertrophy,
\* with a compound and a non-compound exercise in a day.
C16_Witness ==
    /\ Generated /\ goalInput \notin {"strength", "hypertrophy"}
    /\ \E d \in 1..Len(plan.days) : \E j, k \in 1..Len(plan.days[d].exercises) :
          /\ referredTo(plan.days[d].exercises[j].exerciseId).pattern = "Squat"
          /\ referredTo(plan.days[d].exercises[k].exerciseId).pattern = "Accessory"

\* C19 (as stated): an exercise is compound exactly when its pattern is
\* anything other than Accessory, whatever string the pattern is: every
\* prescribed exercise whose catalog exercise has a pattern other than
\* Accessory carries the compound prescription of the goal, and every one
\* whose pattern is Accessory the non-compound prescription.
C19_CompoundUnlessAccessory ==
    Generated =>
        \A dk \in Prescribed :
            LET pex == prescribedAt(dk)
                p == specPrescription(goalInput, referredTo(pex.exerciseId).pattern)
            IN  pex.targetSets = p.targetSets /\ pex.repRange = p.repRange

\* C19 (amended): an exercise is compound exactly when its pattern is one of
\* Squat, Hinge, Horizontal Push, Vertical Push, Horizontal Pull, Vertical
\* Pull: every prescribed exercise whose catalog exercise has one of these
\* patterns carries the compound prescription of the goal, and every other
\* one (Accessory, no pattern, a pattern outside the list) the non-compound
\* prescription.
C19_CompoundIffListed ==
    Generated =>
        \A dk \in Prescribed :
            LET pex == prescribedAt(dk)
                pattern == referredTo(pex.exerciseId).pattern
                p == IF pattern \in specPatterns \ {"Accessory"}
                     THEN specPrescription(goalInput, "Squat")
                     ELSE specPrescription(goalInput, "Accessory")
            IN  pex.targetSets = p.targetSets /\ pex.repRange = p.repRange

\* C19 witness: a strength plan with an exercise of a pattern outside the
\* list at 3 x [6,8], and one with a Squat exercise at 5 x [3,5].
C19_Witness ==
    /\ Generated /\ goalInput = "strength"
    /\ \E dk \in Prescribed :
          /\ referredTo(prescribedAt(dk).exerciseId).pattern = "Core"
          /\ prescribedAt(dk).repRange = <<6, 8>>
    /\ \E dk \in Prescribed :
          /\ referredTo(prescribedAt(dk).exerciseId).pattern = "Squat"
          /\ prescribedAt(dk).repRange = <<3, 5>>

\* C15: a call of generatePlan leaves the catalog (contents and order), the
\* caller's equipment array, the in-memory active plan and the persisted
\* plan as they were; what it returns reaches the active plan only through
\* the caller's assignment.
C15_CallLeavesStateAlone ==
    [][(frame.pc = "read" /\ frame'.pc = "called") =>
          /\ EXERCISES' = EXERCISES
          /\ frame'.equipment = frame.equipment
          /\ plan' = plan
          /\ stored' = stored]_vars

\* C15 witness: a call has returned a plan with exercises for no equipment,
\* the catalog is not in name order, and a plan was saved before and is the
\* active one.
C15_Witness ==
    /\ frame.pc = "called" /\ frame.equipment = <<>>
    /\ \E d \in 1..Len(frame.generated.days) : Len(frame.generated.days[d].exercises) > 1
    /\ \E i, j \in 1..Len(EXERCISES) :
          i < j /\ localeCompare(EXERCISES[i].name, EXERCISES[j].name) > 0
    /\ stored = SavedPlan /\ plan = SavedPlan

\* C18: given an id that no catalog exercise has, the default-prescription
\* lookup returns the compound prescription of the goal, 5 sets of [3,5] for
\* strength and 3 sets of [8,12] for hypertrophy; it returns a prescription
\* for every id and goal.
C18_UnknownIdIsCompound ==
    frame.pc = "looked" =>
        /\ DOMAIN frame.defaults = {"targetSets", "repRange"}
        /\ (\A i \in 1..Len(EXERCISES) : EXERCISES[i].id # frame.exerciseId) =>
              /\ frame.goal = "strength" =>
                    frame.defaults = [targetSets |-> 5, repRange |-> <<3, 5>>]
              /\ frame.goal = "hypertrophy" =>
                    frame.defaults = [targetSets |-> 3, repRange |-> <<8, 12>>]

\* C18 witness: the lookup of an id that the catalog, which has exercises,
\* does not hold, for strength.
C18_Witness ==
    /\ frame.pc = "looked" /\ frame.goal = "strength" /\ Len(EXERCISES) > 1
    /\ \A i \in 1..Len(EXERCISES) :
          EXERCISES[i].id # frame.exerciseId /\ EXERCISES[i].pattern \notin specPatterns \ {"Accessory"}
    /\ frame.defaults.targetSets = 5

\* C20: after any sequence of edits made through the editor (add from the
\* library, add from the add row, change of an exercise's id, move, remove)
\* the exerciseId values within each day of the active plan are pairwise
\* distinct.
C20_EditorKeepsIdsUnique ==
    \A d \in 1..Len(plan.days) :
        \A j, k \in 1..Len(plan.days[d].exercises) :
            j # k => plan.days[d].exercises[j].exerciseId # plan.days[d].exercises[k].exerciseId

\* C21: after any sequence of set-count edits, rep-range edits and add-row
\* additions in the plan editor, every prescribed exercise of the active
\* plan has targetSets >= 1 and a rep range of two bounds, both >= 1, the
\* low one not above the high one.
C21_EditorKeepsPrescriptionValid ==
    \A dk \in Prescribed :
        LET pex == prescribedAt(dk)
        IN  /\ pex.targetSets >= 1
            /\ Len(pex.repRange) = 2
            /\ pex.repRange[1] >= 1 /\ pex.repRange[2] >= 1
            /\ pex.repRange[1] <= pex.repRange[2]

\* C22: the plan generatePlan returns has the name 'My Plan', meta.goal the
\* given goal, meta.daysPerWeek the requested day count (also when the plan
\* has fewer days), and as meta.equipment an array equal to the given
\* equipment array that is not that array; the plan assigned to state.plan
\* does not hold state.selectedEquip either.
C22_MetaFromInputs ==
    /\ frame.pc = "called" =>
          /\ frame.generated.name = "My Plan"
          /\ frame.generated.meta.goal = frame.goal
          /\ frame.generated.meta.daysPerWeek = frame.dpw
          /\ frame.generated.meta.equipment = arrays[frame.equipment]
          /\ arrays[frame.metaEquipment] = arrays[frame.equipment]
          /\ frame.metaEquipment # frame.equipment
    /\ metaEquipment # selectedEquip

\* C22 witness: seven days were asked for with a non-empty equipment array
\* and the returned plan has the three days of the full-body split.
C22_Witness ==
    /\ frame.pc = "called" /\ frame.dpw = 7
    /\ Len(frame.generated.days) = 3
    /\ arrays[frame.equipment] # <<>>

\* C23: with the built-in catalog of 15 exercises, generatePlan('hypertrophy',
\* 3, []) returns the three days Full Body A, B, C, and Full Body A holds
\* exactly bb_squat, bb_bench, bb_row, db_curl in that order, each with 3
\* sets, the three compounds with [8,12] and db_curl with [12,15].
C23_BuiltinFullBodyA ==
    (Generated /\ goalInput = "hypertrophy" /\ nInput = 3 /\ plan.meta.equipment = <<>>) =>
        /\ Len(EXERCISES) = 15
        /\ dayNames = <<"Full Body A", "Full Body B", "Full Body C">>
        /\ plan.days[1].exercises =
              << [exerciseId |-> "bb_squat", targetSets |-> 3, repRange |-> <<8, 12>>],
                 [exerciseId |-> "bb_bench", targetSets |-> 3, repRange |-> <<8, 12>>],
                 [exerciseId |-> "bb_row", targetSets |-> 3, repRange |-> <<8, 12>>],
                 [exerciseId |-> "db_curl", targetSets |-> 3, repRange |-> <<12, 15>>] >>

\* C23 witness: the plan for hypertrophy, three days and no equipment was
\* generated from the built-in catalog.
C23_Witness ==
    /\ Generated /\ goalInput = "hypertrophy" /\ nInput = 3 /\ plan.meta.equipment = <<>>
    /\ EXERCISES = normalize(FALLBACK)
    /\ Len(plan.days) = 3 /\ Len(plan.days[1].exercises) = 4

\* The catalog an array of JSON entries stands for.
catalogOf(items) ==
    toArray([i \in 1..Len(items) |->
                IF items[i] = NullEntry THEN NullEntry ELSE normalize(<<items[i]>>)[1]],
            Len(items))

\* The catalog of the first source, in the order network, cache, built-in
\* list, that has a usable list; usable tells which network arrays count.
degraded(data, cached, usable) ==
    IF data.ok /\ data.array /\ Len(data.items) > 0 /\ usable THEN catalogOf(data.items)
    ELSE IF Len(cached.items) > 0 THEN catalogOf(cached.items)
    ELSE catalogOf(FALLBACK)

\* A call of loadExercises settles / is made in this step.
settling(c) == c \in 1..Len(loads) /\ loads[c].pc = "fetching" /\ loads'[c].pc = "resolved"
calling == Len(loads') = Len(loads) + 1

\* Once a call has resolved, the catalog is non-empty, the flag is set and
\* the call returned the catalog.
resolvedMeansLoaded ==
    \A c \in 1..Len(loads) :
        loads[c].pc = "resolved" => LOADED /\ Len(EXERCISES) > 0 /\ loads[c].value = EXERCISES

\* A call made when the catalog is loaded returns it, fetches nothing and
\* changes nothing.
laterCallsReturnCatalog ==
    (calling /\ LOADED) =>
        /\ loads'[Len(loads')].pc = "resolved"
        /\ loads'[Len(loads')].value = EXERCISES
        /\ fetches' = fetches
        /\ EXERCISES' = EXERCISES /\ cache' = cache /\ LOADED' = LOADED

\* C24 (as stated): loadExercises degrades in a fixed order: a non-empty
\* array from the network, else a non-empty cached list, else the built-in
\* list; once it resolves the catalog is non-empty and the loaded flag is
\* set, and every later call returns the same catalog without fetching and
\* without changing it.
C24_LoadDegradesInOrder ==
    /\ [](resolvedMeansLoaded)
    /\ [][/\ \A c \in 1..MaxLoads :
               settling(c) => EXERCISES' = degraded(loads'[c].data, cache, TRUE)
          /\ laterCallsReturnCatalog]_vars

\* C24 (amended): the same, a network array counting only when none of its
\* entries is null (normalize throws on a null entry and the cache is tried).
C24_LoadDegradesInOrderOfUsable ==
    /\ [](resolvedMeansLoaded)
    /\ [][/\ \A c \in 1..MaxLoads :
               settling(c) =>
                   EXERCISES' = degraded(loads'[c].data, cache,
                                         ~normalizeThrows(loads'[c].data.items))
          /\ laterCallsReturnCatalog]_vars

\* C24 witness: the fetch of the first call failed and the catalog came
\* from the cache; two later calls returned it without a fetch.
C24_Witness ==
    /\ Len(loads) = 3 /\ fetches = 1
    /\ loads[1].pc = "resolved" /\ ~loads[1].data.ok
    /\ Len(cache.items) > 0 /\ EXERCISES = cache.items
    /\ loads[3].pc = "resolved" /\ loads[3].value = EXERCISES

\* Every catalog exercise has a non-empty pattern.
AllTagged(cat) == \A i \in 1..Len(cat) : cat[i].pattern # ""

\* The number of patterns of day d's template that some catalog exercise has.
patternsInCatalog(d) ==
    Cardinality({k \in 1..Len(trace.days[d].log) :
                    withPattern(EXERCISES, trace.days[d].log[k].pat) # {}})

\* C25: for a catalog with unique ids and non-empty patterns, no pick of a
\* generated plan is an exercise already used in its day, deduplication
\* removes nothing, and each day has exactly as many exercises as its
\* template has patterns that some catalog exercise has (when there is at
\* least one such pattern).
C25_NoReuseNoDuplicates ==
    (Generated /\ UniqueIds(EXERCISES) /\ AllTagged(EXERCISES)) =>
        \A d \in 1..Len(plan.days) :
            /\ \A k \in 1..Len(trace.days[d].log) :
                  LET en == trace.days[d].log[k]
                  IN  en.pick # <<>> => en.pick[1].id \notin en.used
            /\ Len(plan.days[d].exercises) = Len(trace.days[d].chosen)
            /\ patternsInCatalog(d) >= 1 =>
                  Len(plan.days[d].exercises) = patternsInCatalog(d)

\* C25 witness: a catalog of three exercises with unique ids and non-empty
\* patterns, one of a pattern no template has; Barbell only, so that the
\* Accessory exercise (a Dumbbell one) comes from the whole-catalog
\* fallback; a day with two exercises.
C25_Witness ==
    /\ Generated /\ UniqueIds(EXERCISES) /\ AllTagged(EXERCISES)
    /\ Len(EXERCISES) = 3 /\ plan.meta.equipment = <<"Barbell">>
    /\ \E d \in 1..Len(plan.days) :
          /\ patternsInCatalog(d) = 2 /\ Len(plan.days[d].exercises) = 2
          /\ Len(trace.days[d].log) > 2

\* C26: the used ids are per day, so two days of a plan whose templates
\* have the same pattern sequence (Upper A and Upper B, Lower A and Lower B,
\* Push A and Push B, Pull A and Pull B, Legs A and Legs B) get identical
\* exercise lists; every day's selection starts with no id used.
C26_SameTemplateSameDay ==
    Generated =>
        /\ \A d \in 1..Len(trace.days) :
              trace.days[d].log # <<>> => trace.days[d].log[1].used = {}
        /\ \A d1, d2 \in 1..Len(plan.days) :
              templatePatterns(d1) = templatePatterns(d2) =>
                  plan.days[d1].exercises = plan.days[d2].exercises

\* C26 witness: an upper/lower plan from a catalog with two Squat exercises;
\* Lower A and Lower B hold the same exercise, the one first by name.
C26_Witness ==
    /\ Generated /\ nInput = 4 /\ Len(plan.days) = 4
    /\ Cardinality(withPattern(EXERCISES, "Squat")) >= 2 /\ UniqueIds(EXERCISES)
    /\ dayNames[2] = "Lower A" /\ dayNames[4] = "Lower B"
    /\ plan.days[2].exercises # <<>>
    /\ plan.days[2].exercises = plan.days[4].exercises

\* No catalog exercise has its equipment in the array equipment.
NoneAvailable(equipment) ==
    \A i \in 1..Len(EXERCISES) : EXERCISES[i].equipment \notin SetOf(equipment)

\* C27 (as stated): if the requested equipment set is non-empty but no
\* catalog exercise has equipment in it, every pattern falls back to the
\* whole catalog and the generated days (names, exercise ids, prescriptions)
\* are those generated with an empty equipment set.
C27_NoMatchLikeNoEquipment ==
    (Generated /\ plan.meta.equipment # <<>> /\ NoneAvailable(plan.meta.equipment)) =>
        /\ trace.avail = <<>>
        /\ plan.days = generatePlan(EXERCISES, goalInput, nInput, <<>>).days

\* C27 (amended): the same for catalogs in which every exercise has a
\* non-empty pattern (an exercise without one is a candidate for Accessory
\* in the equipment pools only, not in the whole-catalog fallback).
C27_NoMatchLikeNoEquipmentTagged ==
    (Generated /\ plan.meta.equipment # <<>> /\ NoneAvailable(plan.meta.equipment)
       /\ AllTagged(EXERCISES)) =>
        /\ trace.avail = <<>>
        /\ plan.days = generatePlan(EXERCISES, goalInput, nInput, <<>>).days

\* C27 witness: Barbell and Kettlebell are asked for, the catalog has Dumbbell exercises
\* only, all with a pattern, and the plan has a day with two exercises.
C27_Witness ==
    /\ Generated /\ plan.meta.equipment = <<"Barbell", "Kettlebell">>
    /\ NoneAvailable(plan.meta.equipment) /\ AllTagged(EXERCISES)
    /\ Len(EXERCISES) >= 2
    /\ \E d \in 1..Len(plan.days) : Len(plan.days[d].exercises) = 2

\* The arrays with the elements of arr in any order (arr without repeats).
Reorderings(arr) ==
    {q \in [1..Len(arr) -> SetOf(arr)] : \A e \in SetOf(arr) : \E i \in 1..Len(arr) : q[i] = e}

\* Exercises of the same pattern have distinct names; the same for the
\* pattern an exercise counts for (Accessory when it has none).
DistinctNamesPerPattern(cat) ==
    \A i, j \in 1..Len(cat) :
        (i # j /\ cat[i].pattern = cat[j].pattern) => cat[i].name # cat[j].name
DistinctNamesPerPool(cat) ==
    \A i, j \in 1..Len(cat) :
        (i # j /\ countsFor(cat[i]) = countsFor(cat[j])) => cat[i].name # cat[j].name

\* Every day's template has a pattern that some catalog exercise has.
EveryDayHasAPattern == \A d \in 1..Len(trace.days) : patternsInCatalog(d) >= 1

\* The plan is the one generated from every reordering of the catalog.
SamePlanInAnyOrder ==
    \A q \in Reorderings(EXERCISES) :
        generatePlan(q, goalInput, nInput, plan.meta.equipment) = plan

\* C28 (as stated): for catalogs with unique ids in which exercises of the
\* same pattern have distinct names and every day's template has a pattern
\* present in the catalog, any permutation of the catalog yields the same
\* plan.
C28_OrderIndependent ==
    (Generated /\ UniqueIds(EXERCISES) /\ DistinctNamesPerPattern(EXERCISES)
       /\ EveryDayHasAPattern) => SamePlanInAnyOrder

\* C28 (amended): the same when the names are distinct among the exercises
\* that count for the same pattern, an exercise without a pattern counting
\* for Accessory.
C28_OrderIndependentPerPool ==
    (Generated /\ UniqueIds(EXERCISES) /\ DistinctNamesPerPool(EXERCISES)
       /\ EveryDayHasAPattern) => SamePlanInAnyOrder

\* C28 witness: two Squat exercises of different names, the one that is
\* second by name first in the catalog, and a third exercise; the day's
\* Squat is the one first by name.
C28_Witness ==
    /\ Generated /\ UniqueIds(EXERCISES) /\ DistinctNamesPerPool(EXERCISES)
    /\ EveryDayHasAPattern /\ plan.meta.equipment = <<>>
    /\ Len(EXERCISES) = 3 /\ EXERCISES[1].id = "e4"
    /\ \E i \in 2..3 : EXERCISES[i].id = "e3"
    /\ plan.days[1].exercises[1].exerciseId = "e3"

\* How often x occurs in the array arr.
occurrences(arr, x) == Cardinality({i \in 1..Len(arr) : arr[i] = x})

\* What a call moveExercise(dayIdx, exIdx, dir) is to do to the plan.
onlyReorders(dayIdx, exIdx, dir) ==
    LET exs == plan.days[dayIdx + 1].exercises
        after == plan'.days[dayIdx + 1].exercises
        to == exIdx + dir
    IN  IF to < 0 \/ to > Len(exs) - 1 THEN plan' = plan
        ELSE /\ Len(after) = Len(exs)
             /\ after[to + 1] = exs[exIdx + 1]
             /\ after[exIdx + 1] = exs[to + 1]
             /\ \A k \in 1..Len(exs) : k \notin {exIdx + 1, to + 1} => after[k] = exs[k]
             /\ \A k \in 1..Len(exs) : occurrences(after, exs[k]) = occurrences(exs, exs[k])
             /\ Len(plan'.days) = Len(plan.days)
             /\ \A d \in 1..Len(plan.days) : d # dayIdx + 1 => plan'.days[d] = plan.days[d]
             /\ plan'.days[dayIdx + 1].name = plan.days[dayIdx + 1].name
             /\ plan'.name = plan.name /\ plan'.meta = plan.meta

\* C29: moveExercise(dayIdx, exIdx, dir) with dir -1 or +1 only reorders:
\* it swaps the exercise at exIdx with its neighbour at exIdx + dir, keeps
\* the day's exercises as a multiset and their number, leaves every other
\* day unchanged, and changes nothing when exIdx + dir is outside the day.
C29_MoveOnlyReorders ==
    [][\A dayIdx \in 0..1, exIdx \in 0..(MaxDayExercises - 1), dir \in {0 - 1, 1} :
          moveExercise(dayIdx, exIdx, dir) => onlyReorders(dayIdx, exIdx, dir)]_vars

\* C29 witness: the two exercises of the first day have changed places, a
\* third one behind them, and the second day is as generated.
C29_Witness ==
    /\ Len(plan.days) = 2
    /\ idsOfDay(1) = <<"e2", "e3", "e3">>
    /\ plan.days[2] = generatePlan(EXERCISES, "strength", 2, <<>>).days[2]
    /\ plan.days[2].exercises # <<>>

\* The stored workouts have pairwise distinct dates.
DistinctDates(all) == \A i, j \in 1..Len(all) : i # j => all[i].date # all[j].date

\* The stored workouts of a date, and those of the other dates.
ofDate(all, date) == {i \in 1..Len(all) : all[i].date = date}
ofOtherDates(all, date) == {all[i] : i \in {i \in 1..Len(all) : all[i].date # date}}

\* What the call of this step, upsertWorkout(w) or deleteWorkoutByDate(d),
\* is to have done to the stored workouts.
upsertDone ==
    (frame'.pc = "returned" /\ frame'.call = "upsertWorkout") =>
        /\ Cardinality(ofDate(workouts', frame'.date)) = 1
        /\ \A i \in ofDate(workouts', frame'.date) : workouts'[i] = frame'.workout[1]
        /\ ofOtherDates(workouts', frame'.date) = ofOtherDates(workouts, frame'.date)
deleteDone ==
    (frame'.pc = "returned" /\ frame'.call = "deleteWorkoutByDate") =>
        /\ ofDate(workouts', frame'.date) = {}
        /\ ofOtherDates(workouts', frame'.date) = ofOtherDates(workouts, frame'.date)

\* C30 (as stated): starting from stored workouts with pairwise distinct
\* dates, after any sequence of Storage.upsertWorkout and
\* Storage.deleteWorkoutByDate calls the stored workouts have pairwise
\* distinct dates; upsertWorkout(w) leaves exactly one workout with w.date,
\* equal to w, and leaves the workouts of other dates unchanged;
\* deleteWorkoutByDate(d) leaves none with date d.
C30_WorkoutsByDate ==
    /\ [](DistinctDates(workouts))
    /\ [][upsertDone /\ deleteDone]_vars

\* C30 (amended): the same for the calls whose write the store takes; a call
\* whose write fails leaves the stored workouts as they were.
C30_WorkoutsByDateWhenWritten ==
    /\ [](DistinctDates(workouts))
    /\ [][IF frame'.written THEN upsertDone /\ deleteDone
          ELSE workouts' = workouts]_vars

\* C30 witness: after a delete that the store took, two workouts are
\* stored, not in date order, the one of the first date with exercises.
C30_Witness ==
    /\ Len(workouts) = 2
    /\ frame.pc = "returned" /\ frame.call = "deleteWorkoutByDate" /\ frame.written
    /\ workouts[1].date = Dates[3] /\ workouts[2].date = Dates[1]
    /\ workouts[2].exercises # <<>>

====
